---- MODULE Spec2Model ----
(***************************************************************************)
(* Model of github.com/rwool/ex: the SSH target (connection), the sessions *)
(* it hands out through Command, and their Run / Start / Wait life cycle   *)
(* under the caller's context and the connection-wide session context;     *)
(* the escape-sequence Processor and its Reader (package escape); the      *)
(* Recorder's event buffers.  Each part has its own specification, which   *)
(* leaves the variables of the other parts alone.                          *)
(***************************************************************************)
EXTENDS Integers, Sequences, FiniteSets, TLC

\* Bounds of the model.
MaxHandles == 2
MaxCalls == 2
MaxClosers == 2
MaxOps == 6
MaxSeqLen == 3
MaxSeqs == 2
MaxStream == 4
MaxRead == 2
MaxAdded == 1
MaxWrites == 3
MaxTime == 2
MaxEntries == 2
MaxEvents == 2
MaxDims == 2
MaxSends == 11
MaxOsSignals == 2
MaxPanics == 2
SigCap == 10

Handles == 1..MaxHandles
Closers == 1..MaxClosers

\* The bytes that occur in inputs and in escape sequences.
Bytes == {"a", "b"}

\* The escape sequences that can be registered.
Seqs == UNION {[1..n -> Bytes] : n \in 1..MaxSeqLen}

\* The sets of at most k escape sequences.
RECURSIVE SeqSets(_)
SeqSets(k) ==
    IF k = 0 THEN {{}}
    ELSE LET S == SeqSets(k - 1) IN S \cup {R \cup {s} : R \in S, s \in Seqs}

\* The two output streams of a Recorder (outputType).
Streams == {"stdout", "stderr"}

\* The writers a caller can hand to Replay.
Writers == {"w1", "w2"}

\* What one Write call can be given.
Payloads == {<<>>, <<"a">>, <<"b", "a">>}

VARIABLES
    stMu,             \* SSHTarget.mu: 0 when free, else the Close call holding it
    isClosed,         \* SSHTarget.isClosed
    sessionCancelled, \* SSHTarget.sessionCtx is done (sessionCancel was called)
    wg,               \* counter of SSHTarget.sessionWG
    nSessions,        \* len(SSHTarget.sessions): handles 1..nSessions are registered
    clientCloseCalls, \* how often SSH.Close ran on SSHTarget.client
    clientCloseErr,   \* whether the last SSH.Close returned an error
    closePc,          \* position of each Close call
    closeRet,         \* value returned by each Close call
    panicked,         \* an unrecovered panic ended the process
    ssMu,             \* sshSession.mu of each handle: "free", "run" or "wait"
    ctxSet,           \* sshSession.ctx # nil (set by Start)
    calls,            \* per handle, the Run / Start invocations made on it
    finishCalls,      \* how often the handle's finishFn ran
    execCalls,        \* how often SSH.RunCommand was entered for the handle
    waitPc,           \* position of the handle's Wait call
    waitRet,          \* value returned by the handle's last Wait call
    ops,              \* calls made so far by the program's callers
    escapes,          \* Processor.escapes: progress of each registered sequence
    stream,           \* the bytes given to InsertByte so far
    completedAt,      \* per sequence, the stream positions that completed it
    firedAt,          \* per sequence, the stream positions its callback ran at
    sequenceFound,    \* what the last InsertByte returned: {} (nil) or {seq}
    insertPanic,      \* the last InsertByte ended in a panic of its callback
    initial,          \* the sequences NewProcessor was given
    rdPc,             \* Reader.Read: "idle", "loop", "returned", "panicked"
    srcRet,           \* what source.Read returned to the current Read
    p,                \* the caller's buffer (its first n bytes)
    rdStart,          \* len(stream) when the current Read began
    rdPos,            \* bytes of p the loop of Read has passed on
    rdRet,            \* what the last Read returned
    entries,          \* Recorder.entries, the shared log
    buf,              \* bytes.Buffer of each eventBuffer
    wPc,              \* eventBuffer.Write of each stream: position
    wP,               \* its argument p
    wOff,             \* its startOffset
    wRet,             \* what the stream's last Write returned
    issued,           \* per stream, the arguments of its Write calls, in order
    now,              \* the monotonic clock, relative to startTime
    passthrough,      \* the writer given by setPassthrough: "none" (nil), or
                      \* how it answers: "good", "failing", "short"
    passed,           \* what reached the passthrough writer, in order
    hostKeyOpt,       \* the HostKeyValidationOption given to NewSSHTarget, or "none"
    keyTrusted,       \* whether the strict callback accepts the server's key
    hostKeyCB,        \* SSHTarget.hostKeyCB, the callback given to NewSSH
    nsPc,             \* NewSSHTarget / getClient / NewSSH: position
    watcherPc,        \* the goroutine of NewSSH: "none", "select", "done"
    connCtxDone,      \* the ctx given to NewSSHTarget is done
    midHandshake,     \* ctx was cancelled while ssh.NewClientConn was running
    connClosed,       \* the goroutine of NewSSH closed the net.Conn
    contextError,     \* contextError of NewSSH is set
    hsErr,            \* err of ssh.NewClientConn: "none", "nil", "err"
    nsRet,            \* what NewSSHTarget's connection attempt came to
    recordingStart,   \* Recorder.recordingStart: <<>> when zero, else <<the clock at startTiming>>
    lastStart,        \* the clock at the latest call of startTiming, <<>> before any
    events,           \* Recorder.events, the special events
    noColor,          \* color.NoColor: colour codes are switched off
    rpPc,             \* Recorder.Replay: "idle", "sleep", "write", "returned", "panicked"
    rpOut,            \* its writer for stdout entries, after the nil fallback
    rpErr,            \* its writer for stderr entries, after the nil fallback
    rpSm,             \* its speedMultiplier
    rpI,              \* index of the entry it is at
    rpOff,            \* offset of fn within the data of that entry
    replayStart,      \* replayStart
    elapsed,          \* elapsed
    rpRet,            \* what Replay returned
    sink,             \* what each writer has taken from Replay, in order
    delays,           \* per entry, the delay Replay took and when it computed it
    writeLog,         \* the Write calls Replay made and what each returned
    epMu,             \* Processor.mu: "free" or the call that holds it
    ibPc,             \* an InsertByte call: "idle", "callback", "return"
    cbPc,             \* the escape callback it runs: "idle", "running", "locking"
    addPc,            \* another goroutine's AddSequencePairs: "idle", "locking"
    rfPc,             \* eventBuffer.ReadFrom: "idle", "loop", "returned"
    rfReads,          \* the Read calls it made that did not end it
    rfChunk,          \* eb.scratch[:read] of the latest of them
    rfLastErr,        \* the error of its latest Read call
    rfTotal,          \* totalRead
    rfRet,            \* the count it returned
    rfSrc,            \* all the bytes its reader has returned, in order
    rcPc,             \* SSH.RunCommand: "new", "run", "ran", "returned"
    rcErr,            \* its variable err, which its goroutine assigns too
    rcRunErr,         \* what sess.Run or sess.Shell returned, "none" before
    rcRet,            \* what RunCommand returned, "none" before
    winPc,            \* the goroutine for WinCh: "nil", "unspawned", "select", "changing", "done"
    winCh,            \* the values sent on WinCh and not received
    winSent,          \* how many values the caller has sent on WinCh
    winCur,           \* dims, the value the goroutine received
    winReqs,          \* the window-change requests made to the remote session
    handlersSet,      \* handlersSet
    loopPc,           \* the dispatch goroutine: "none", "select", "handling"
    sigC,             \* sigC; each signal marked with handlersSet at its sending
    osSigC,           \* osSigC, the OS signals notified and not taken
    sigSent,          \* the SendSignal calls made
    osArrived,        \* the OS signals that arrived while notified
    sigCur,           \* the signal whose handler runs
    handlerPanics,    \* how many handler calls panicked, for each kind of signal
    loggedPanics,     \* how many panics were recovered and logged, for each kind
    afterPanic,       \* a handler was called after an earlier one panicked
    staleHandled      \* a handler got a signal sent while handling was not set up

targetVars == <<stMu, isClosed, sessionCancelled, wg, nSessions, clientCloseCalls,
                clientCloseErr, closePc, closeRet, panicked>>
sessionVars == <<ssMu, ctxSet, calls, finishCalls, execCalls, waitPc, waitRet>>
sshVars == <<targetVars, sessionVars, ops>>
escVars == <<escapes, stream, completedAt, firedAt, sequenceFound, insertPanic, initial>>
rdVars == <<rdPc, srcRet, p, rdStart, rdPos, rdRet>>
recVars == <<entries, buf, wPc, wP, wOff, wRet, issued, now, passthrough, passed>>
connVars == <<hostKeyOpt, keyTrusted, hostKeyCB, nsPc, watcherPc, connCtxDone, midHandshake,
              connClosed, contextError, hsErr, nsRet>>
rpVars == <<recordingStart, lastStart, events, noColor, rpPc, rpOut, rpErr, rpSm, rpI, rpOff,
            replayStart, elapsed, rpRet, sink, delays, writeLog>>
muVars == <<epMu, ibPc, cbPc, addPc>>
rfVars == <<rfPc, rfReads, rfChunk, rfLastErr, rfTotal, rfRet, rfSrc>>
winVars == <<rcPc, rcErr, rcRunErr, rcRet, winPc, winCh, winSent, winCur, winReqs>>
sigVars == <<handlersSet, loopPc, sigC, osSigC, sigSent, osArrived, sigCur, handlerPanics,
             loggedPanics, afterPanic, staleHandled>>
auxVars == <<muVars, rfVars, winVars, sigVars>>
notSshVars == <<escVars, rdVars, recVars, connVars, rpVars, auxVars>>
notEscVars == <<sshVars, rdVars, recVars, connVars, rpVars, auxVars>>
notRdVars == <<sshVars, escVars, recVars, connVars, rpVars, auxVars>>
notEscRdVars == <<sshVars, recVars, connVars, rpVars, auxVars>>
notRecVars == <<sshVars, escVars, rdVars, connVars, rpVars, auxVars>>
notConnVars == <<sshVars, escVars, rdVars, recVars, rpVars, auxVars>>
notRecRpVars == <<sshVars, escVars, rdVars, connVars, auxVars>>
baseVars == <<sshVars, escVars, rdVars, recVars, connVars, rpVars>>
notEscMuVars == <<sshVars, rdVars, recVars, connVars, rpVars, rfVars, winVars, sigVars>>
notRfVars == <<baseVars, muVars, winVars, sigVars>>
notWinVars == <<baseVars, muVars, rfVars, sigVars>>
notSigVars == <<baseVars, muVars, rfVars, winVars>>
vars == <<sshVars, escVars, rdVars, recVars, connVars, rpVars, auxVars>>

\* One invocation of Run or Start on a handle.
\*   kind       "run" or "start"
\*   callerDone the context passed by the caller is done
\*   ctxDone    cancel() of the derived context was called
\*   exec       SSH.RunCommand: "running" or "done"
\*   res        result of SSH.RunCommand: "none", "ok", "err"
\*   pc         the calling goroutine: "exec" (inside Run) or "returned"
\*   w          the goroutine spawned by the call: "select", "sent", "exited"
\*   late       parentCtx was already done when the call was made
NewCall(k) ==
    [kind |-> k, callerDone |-> FALSE, ctxDone |-> FALSE, exec |-> "running",
     res |-> "none", pc |-> IF k = "run" THEN "exec" ELSE "returned", w |-> "select",
     late |-> sessionCancelled]

Registered == 1..nSessions

CallIds(h) == 1..Len(calls[h])

RECURSIVE SumLen(_)
SumLen(n) == IF n = 0 THEN 0 ELSE Len(calls[n]) + SumLen(n - 1)

\* Run and Start invocations made so far, over all handles.
NumCalls == SumLen(MaxHandles)

\* NewProcessor(seqs...): every sequence of R registered with progress 0.
NewProcessor(R) ==
    /\ escapes = [s \in R |-> 0]
    /\ stream = <<>>
    /\ completedAt = [s \in Seqs |-> {}]
    /\ firedAt = [s \in Seqs |-> {}]
    /\ sequenceFound = {}
    /\ insertPanic = FALSE
    /\ initial = R

\* A Reader on which Read was not called yet.
RdIdle ==
    /\ rdPc = "idle"
    /\ srcRet = [n |-> 0, err |-> "nil", bytes |-> <<>>]
    /\ p = <<>>
    /\ rdStart = 0
    /\ rdPos = 0
    /\ rdRet = [n |-> 0, err |-> "nil"]

\* A Recorder after setOutput and startTiming, with passthrough writer pt,
\* nothing written.
RecIdle(pt) ==
    /\ entries = <<>>
    /\ buf = [st \in Streams |-> <<>>]
    /\ wPc = [st \in Streams |-> "idle"]
    /\ wP = [st \in Streams |-> <<>>]
    /\ wOff = [st \in Streams |-> 0]
    /\ wRet = [st \in Streams |-> [n |-> 0, err |-> "nil"]]
    /\ issued = [st \in Streams |-> <<>>]
    /\ now = 0
    /\ passthrough = pt
    /\ passed = <<>>

\* A Recorder with baseline rs, no special event, Replay not called; nc is
\* color.NoColor.
RpState(rs, nc) ==
    /\ recordingStart = rs
    /\ lastStart = rs
    /\ events = <<>>
    /\ noColor = nc
    /\ rpPc = "idle"
    /\ rpOut = "nil"
    /\ rpErr = "nil"
    /\ rpSm = 0
    /\ rpI = 0
    /\ rpOff = 0
    /\ replayStart = 0
    /\ elapsed = 0
    /\ rpRet = "none"
    /\ sink = [w \in Writers |-> <<>>]
    /\ delays = <<>>
    /\ writeLog = <<>>

\* A Recorder whose startTiming ran at clock 0.
RpIdle(nc) == RpState(<<0>>, nc)

\* A Processor nobody is calling.
MuIdle ==
    /\ epMu = "free"
    /\ ibPc = "idle"
    /\ cbPc = "idle"
    /\ addPc = "idle"

\* An eventBuffer on which ReadFrom was not called.
RfIdle ==
    /\ rfPc = "idle"
    /\ rfReads = 0
    /\ rfChunk = <<>>
    /\ rfLastErr = "nil"
    /\ rfTotal = 0
    /\ rfRet = 0
    /\ rfSrc = <<>>

\* An SSH client on which RunCommand was not called; w is "nil" for a
\* RunConfig without WinCh and "unspawned" for one with it.
WinIdle(w) ==
    /\ rcPc = "new"
    /\ rcErr = "nil"
    /\ rcRunErr = "none"
    /\ rcRet = "none"
    /\ winPc = w
    /\ winCh = <<>>
    /\ winSent = 0
    /\ winCur = "none"
    /\ winReqs = <<>>

\* The two ways a signal reaches the dispatch loop: from the OS on osSigC,
\* from SendSignal on sigC.
SigKinds == {"os", "sent"}

\* The signal package of a process that has not begun signal handling.
SigIdle ==
    /\ handlersSet = FALSE
    /\ loopPc = "none"
    /\ sigC = <<>>
    /\ osSigC = <<>>
    /\ sigSent = 0
    /\ osArrived = 0
    /\ sigCur = "none"
    /\ handlerPanics = [k \in SigKinds |-> 0]
    /\ loggedPanics = [k \in SigKinds |-> 0]
    /\ afterPanic = FALSE
    /\ staleHandled = FALSE

\* The parts of the system that are at rest in a specification about
\* another part.
AuxIdle == MuIdle /\ RfIdle /\ WinIdle("nil") /\ SigIdle

\* A call of NewSSHTarget with option opt, to a server whose key the strict
\* callback accepts or not (trusted), nothing done yet.
ConnIdle(opt, trusted) ==
    /\ hostKeyOpt = opt
    /\ keyTrusted = trusted
    /\ hostKeyCB = "unset"
    /\ nsPc = "new"
    /\ watcherPc = "none"
    /\ connCtxDone = FALSE
    /\ midHandshake = FALSE
    /\ connClosed = FALSE
    /\ contextError = FALSE
    /\ hsErr = "none"
    /\ nsRet = "none"

\* NewSSHTarget: no session, nothing closed.
SshInit ==
    /\ stMu = 0
    /\ isClosed = FALSE
    /\ sessionCancelled = FALSE
    /\ wg = 0
    /\ nSessions = 0
    /\ clientCloseCalls = 0
    /\ clientCloseErr = FALSE
    /\ closePc = [c \in Closers |-> "idle"]
    /\ closeRet = [c \in Closers |-> "none"]
    /\ panicked = FALSE
    /\ ssMu = [h \in Handles |-> "free"]
    /\ ctxSet = [h \in Handles |-> FALSE]
    /\ calls = [h \in Handles |-> <<>>]
    /\ finishCalls = [h \in Handles |-> 0]
    /\ execCalls = [h \in Handles |-> 0]
    /\ waitPc = [h \in Handles |-> "idle"]
    /\ waitRet = [h \in Handles |-> "none"]
    /\ ops = 0

Init ==
    /\ SshInit
    /\ NewProcessor({})
    /\ RdIdle
    /\ RecIdle("none")
    /\ ConnIdle("none", TRUE)
    /\ RpIdle(TRUE)
    /\ AuxIdle

SetCall(h, i, c) == [calls EXCEPT ![h][i] = c]

\* finishFn of a handle (the closure Command passes to newSSHSession): one
\* sessionWG.Done(); a negative WaitGroup counter panics.
FinishFn(h) ==
    /\ finishCalls' = [finishCalls EXCEPT ![h] = @ + 1]
    /\ wg' = wg - 1
    /\ panicked' = (wg - 1 < 0)

\* SSHTarget.Command: under st.mu, sessionWG.Add(1), a new session bound to
\* sessionCtx and to a finishFn, appended to st.sessions.
Command ==
    /\ ~panicked
    /\ UNCHANGED notSshVars
    /\ ops < MaxOps
    /\ ops' = ops + 1
    /\ stMu = 0
    /\ nSessions < MaxHandles
    /\ wg' = wg + 1
    /\ nSessions' = nSessions + 1
    /\ UNCHANGED <<stMu, isClosed, sessionCancelled, clientCloseCalls, clientCloseErr,
                   closePc, closeRet, panicked, sessionVars>>

\* A goroutine calls SSHTarget.Close and reaches st.mu.Lock(). Calls are
\* numbered in the order they are made.
CloseCall(c) ==
    /\ ~panicked
    /\ UNCHANGED notSshVars
    /\ ops < MaxOps
    /\ ops' = ops + 1
    /\ closePc[c] = "idle"
    /\ \A d \in Closers : d < c => closePc[d] # "idle"
    /\ closePc' = [closePc EXCEPT ![c] = "lock"]
    /\ UNCHANGED <<stMu, isClosed, sessionCancelled, wg, nSessions, clientCloseCalls,
                   clientCloseErr, closeRet, panicked, sessionVars>>

\* CloseBegin without the isClosed test.
CloseBeginUnguarded(c) ==
    /\ ~panicked
    /\ UNCHANGED notSshVars
    /\ UNCHANGED ops
    /\ closePc[c] = "lock"
    /\ stMu = 0
    /\ closePc' = [closePc EXCEPT ![c] = "wait"]
    /\ stMu' = c
    /\ sessionCancelled' = TRUE
    /\ UNCHANGED <<closeRet, isClosed, wg, nSessions, clientCloseCalls, clientCloseErr,
                   panicked, sessionVars>>

\* Close takes st.mu; with isClosed set it returns nil (and unlocks) at once,
\* else it calls st.sessionCancel() and reaches st.sessionWG.Wait().
CloseBegin(c) ==
    /\ ~panicked
    /\ UNCHANGED notSshVars
    /\ UNCHANGED ops
    /\ closePc[c] = "lock"
    /\ stMu = 0
    /\ IF isClosed
       THEN /\ closePc' = [closePc EXCEPT ![c] = "returned"]
            /\ closeRet' = [closeRet EXCEPT ![c] = "nil"]
            /\ UNCHANGED <<stMu, sessionCancelled>>
       ELSE /\ closePc' = [closePc EXCEPT ![c] = "wait"]
            /\ stMu' = c
            /\ sessionCancelled' = TRUE
            /\ UNCHANGED closeRet
    /\ UNCHANGED <<isClosed, wg, nSessions, clientCloseCalls, clientCloseErr,
                   panicked, sessionVars>>

\* st.sessionWG.Wait() returns once the counter is zero; then
\* st.client.Close() (its error value is dropped), st.isClosed = true,
\* return nil, st.mu unlocked by the defer.
CloseEnd(c) ==
    /\ ~panicked
    /\ UNCHANGED notSshVars
    /\ UNCHANGED ops
    /\ closePc[c] = "wait"
    /\ wg = 0
    /\ clientCloseCalls' = clientCloseCalls + 1
    /\ \E e \in BOOLEAN : clientCloseErr' = e
    /\ isClosed' = TRUE
    /\ stMu' = 0
    /\ closePc' = [closePc EXCEPT ![c] = "returned"]
    /\ closeRet' = [closeRet EXCEPT ![c] = "nil"]
    /\ UNCHANGED <<sessionCancelled, wg, nSessions, panicked, sessionVars>>

\* The session type exists twice with the same code: sshSession of package ex
\* (the one SSHTarget.Command creates) and SSHSession of package sshtarget.

\* sshSession.Run up to the call of RunCommand: ss.mu taken, the context
\* derived, the watcher goroutine spawned, RunCommand entered.
Run(h) ==
    /\ ~panicked
    /\ UNCHANGED notSshVars
    /\ ops < MaxOps
    /\ ops' = ops + 1
    /\ h \in Registered
    /\ ssMu[h] = "free"
    /\ NumCalls < MaxCalls
    /\ ssMu' = [ssMu EXCEPT ![h] = "run"]
    /\ calls' = [calls EXCEPT ![h] = Append(@, NewCall("run"))]
    /\ execCalls' = [execCalls EXCEPT ![h] = @ + 1]
    /\ UNCHANGED <<targetVars, ctxSet, finishCalls, waitPc, waitRet>>

\* RunWatcher calling the target's sessionCancel when the caller's context
\* ends.
RunWatcherCancelsAll(h, i) ==
    /\ ~panicked
    /\ UNCHANGED notSshVars
    /\ UNCHANGED ops
    /\ calls[h][i].kind = "run"
    /\ calls[h][i].w = "select"
    /\ \/ /\ calls[h][i].callerDone \/ calls[h][i].ctxDone
          /\ calls' = SetCall(h, i, [calls[h][i] EXCEPT !.w = "exited"])
          /\ sessionCancelled' = TRUE
       \/ /\ sessionCancelled
          /\ calls' = SetCall(h, i, [calls[h][i] EXCEPT !.w = "exited", !.ctxDone = TRUE])
          /\ UNCHANGED sessionCancelled
    /\ FinishFn(h)
    /\ UNCHANGED <<stMu, isClosed, nSessions, clientCloseCalls,
                   clientCloseErr, closePc, closeRet, ssMu, ctxSet, execCalls,
                   waitPc, waitRet>>

\* The watcher goroutine of Run: defer ss.finishFn(); select on the derived
\* context and on parentCtx (the latter calls cancel()).
RunWatcher(h, i) ==
    /\ ~panicked
    /\ UNCHANGED notSshVars
    /\ UNCHANGED ops
    /\ calls[h][i].kind = "run"
    /\ calls[h][i].w = "select"
    /\ \/ /\ calls[h][i].callerDone \/ calls[h][i].ctxDone
          /\ calls' = SetCall(h, i, [calls[h][i] EXCEPT !.w = "exited"])
       \/ /\ sessionCancelled
          /\ calls' = SetCall(h, i, [calls[h][i] EXCEPT !.w = "exited", !.ctxDone = TRUE])
    /\ FinishFn(h)
    /\ UNCHANGED <<stMu, isClosed, sessionCancelled, nSessions, clientCloseCalls,
                   clientCloseErr, closePc, closeRet, ssMu, ctxSet, execCalls,
                   waitPc, waitRet>>

\* Run returns after RunCommand did: deferred cancel(), deferred ss.mu.Unlock().
RunReturn(h, i) ==
    /\ ~panicked
    /\ UNCHANGED notSshVars
    /\ UNCHANGED ops
    /\ calls[h][i].kind = "run"
    /\ calls[h][i].pc = "exec"
    /\ calls[h][i].exec = "done"
    /\ calls' = SetCall(h, i, [calls[h][i] EXCEPT !.pc = "returned", !.ctxDone = TRUE])
    /\ ssMu' = [ssMu EXCEPT ![h] = "free"]
    /\ UNCHANGED <<targetVars, ctxSet, finishCalls, execCalls, waitPc, waitRet>>

\* sshSession.Start: under ss.mu, ss.ctx set, the goroutine spawned; the
\* goroutine evaluates the operand of its send case, RunCommand(ctx, conf),
\* before its select can choose anything.
Start(h) ==
    /\ ~panicked
    /\ UNCHANGED notSshVars
    /\ ops < MaxOps
    /\ ops' = ops + 1
    /\ h \in Registered
    /\ ssMu[h] = "free"
    /\ NumCalls < MaxCalls
    /\ ctxSet' = [ctxSet EXCEPT ![h] = TRUE]
    /\ calls' = [calls EXCEPT ![h] = Append(@, NewCall("start"))]
    /\ execCalls' = [execCalls EXCEPT ![h] = @ + 1]
    /\ UNCHANGED <<targetVars, ssMu, finishCalls, waitPc, waitRet>>

\* The select of Start's goroutine, entered once RunCommand has returned:
\* ctx.Done, parentCtx.Done (cancel()), or the send on the unbuffered errC,
\* which needs Wait at its receive.
StartSelect(h, i) ==
    /\ ~panicked
    /\ UNCHANGED notSshVars
    /\ UNCHANGED ops
    /\ calls[h][i].kind = "start"
    /\ calls[h][i].w = "select"
    /\ calls[h][i].exec = "done"
    /\ \/ /\ calls[h][i].callerDone
          /\ calls' = SetCall(h, i, [calls[h][i] EXCEPT !.w = "exited"])
          /\ FinishFn(h)
          /\ UNCHANGED <<waitPc, waitRet>>
       \/ /\ sessionCancelled
          /\ calls' = SetCall(h, i, [calls[h][i] EXCEPT !.w = "exited", !.ctxDone = TRUE])
          /\ FinishFn(h)
          /\ UNCHANGED <<waitPc, waitRet>>
       \/ /\ waitPc[h] = "blocked"
          /\ calls' = SetCall(h, i, [calls[h][i] EXCEPT !.w = "sent"])
          /\ waitPc' = [waitPc EXCEPT ![h] = "received"]
          /\ waitRet' = [waitRet EXCEPT ![h] = calls[h][i].res]
          /\ UNCHANGED <<finishCalls, wg, panicked>>
    /\ UNCHANGED <<stMu, isClosed, sessionCancelled, nSessions, clientCloseCalls,
                   clientCloseErr, closePc, closeRet, ssMu, ctxSet, execCalls>>

\* Start's goroutine returns after its send: the deferred ss.finishFn().
StartFinish(h, i) ==
    /\ ~panicked
    /\ UNCHANGED notSshVars
    /\ UNCHANGED ops
    /\ calls[h][i].kind = "start"
    /\ calls[h][i].w = "sent"
    /\ calls' = SetCall(h, i, [calls[h][i] EXCEPT !.w = "exited"])
    /\ FinishFn(h)
    /\ UNCHANGED <<stMu, isClosed, sessionCancelled, nSessions, clientCloseCalls,
                   clientCloseErr, closePc, closeRet, ssMu, ctxSet, execCalls,
                   waitPc, waitRet>>

\* Wait without its test of ss.ctx: it goes to the receive on errC at once.
WaitNoCtxTest(h) ==
    /\ ~panicked
    /\ UNCHANGED notSshVars
    /\ ops < MaxOps
    /\ ops' = ops + 1
    /\ h \in Registered
    /\ ssMu[h] = "free"
    /\ waitPc[h] \in {"idle", "returned"}
    /\ waitPc' = [waitPc EXCEPT ![h] = "blocked"]
    /\ waitRet' = [waitRet EXCEPT ![h] = "none"]
    /\ ssMu' = [ssMu EXCEPT ![h] = "wait"]
    /\ UNCHANGED <<targetVars, ctxSet, calls, finishCalls, execCalls>>

\* sshSession.Wait: under ss.mu; "no command running" when ss.ctx is nil,
\* else it blocks in <-ss.errC holding ss.mu.
Wait(h) ==
    /\ ~panicked
    /\ UNCHANGED notSshVars
    /\ ops < MaxOps
    /\ ops' = ops + 1
    /\ h \in Registered
    /\ ssMu[h] = "free"
    /\ waitPc[h] \in {"idle", "returned"}
    /\ IF ctxSet[h]
       THEN /\ waitPc' = [waitPc EXCEPT ![h] = "blocked"]
            /\ waitRet' = [waitRet EXCEPT ![h] = "none"]
            /\ ssMu' = [ssMu EXCEPT ![h] = "wait"]
       ELSE /\ waitPc' = [waitPc EXCEPT ![h] = "returned"]
            /\ waitRet' = [waitRet EXCEPT ![h] = "usage"]
            /\ UNCHANGED ssMu
    /\ UNCHANGED <<targetVars, ctxSet, calls, finishCalls, execCalls>>

\* Wait returns what it received from errC and unlocks ss.mu.
WaitReturn(h) ==
    /\ ~panicked
    /\ UNCHANGED notSshVars
    /\ UNCHANGED ops
    /\ waitPc[h] = "received"
    /\ waitPc' = [waitPc EXCEPT ![h] = "returned"]
    /\ ssMu' = [ssMu EXCEPT ![h] = "free"]
    /\ UNCHANGED <<targetVars, ctxSet, calls, finishCalls, execCalls, waitRet>>

\* SSH.RunCommand returns because the remote command ended (exit status 0 or
\* not). Its ctx parameter is never read, so no context is consulted.
RunCommandFinish(h, i, r) ==
    /\ ~panicked
    /\ UNCHANGED notSshVars
    /\ UNCHANGED ops
    /\ calls[h][i].exec = "running"
    /\ calls' = SetCall(h, i, [calls[h][i] EXCEPT !.exec = "done", !.res = r])
    /\ UNCHANGED <<targetVars, ssMu, ctxSet, finishCalls, execCalls, waitPc, waitRet>>

\* SSH.RunCommand fails because the SSH client was closed: NewSession or
\* sess.Run / sess.Shell return an error.
RunCommandAbort(h, i) ==
    /\ ~panicked
    /\ UNCHANGED notSshVars
    /\ UNCHANGED ops
    /\ calls[h][i].exec = "running"
    /\ clientCloseCalls > 0
    /\ calls' = SetCall(h, i, [calls[h][i] EXCEPT !.exec = "done", !.res = "err"])
    /\ UNCHANGED <<targetVars, ssMu, ctxSet, finishCalls, execCalls, waitPc, waitRet>>

\* The caller cancels the context it passed to Run or Start (a cancellation
\* nothing of the call is left to observe changes nothing).
CancelCtx(h, i) ==
    /\ ~panicked
    /\ UNCHANGED notSshVars
    /\ ops < MaxOps
    /\ ops' = ops + 1
    /\ ~calls[h][i].callerDone
    /\ calls[h][i].w = "select"
    /\ calls' = SetCall(h, i, [calls[h][i] EXCEPT !.callerDone = TRUE])
    /\ UNCHANGED <<targetVars, ssMu, ctxSet, finishCalls, execCalls, waitPc, waitRet>>

\* Steps taken by goroutines of the program once they are enabled.
Progress ==
    \/ \E c \in Closers : CloseBegin(c) \/ CloseEnd(c)
    \/ \E h \in Handles : \E i \in CallIds(h) :
          RunWatcher(h, i) \/ RunReturn(h, i) \/ StartSelect(h, i)
            \/ StartFinish(h, i) \/ RunCommandAbort(h, i)
    \/ \E h \in Handles : WaitReturn(h)

\* Remote commands that end of their own accord.
RemoteEnds == \E h \in Handles : \E i \in CallIds(h) : \E r \in {"ok", "err"} :
                  RunCommandFinish(h, i, r)

Next ==
    \/ Command
    \/ \E c \in Closers : CloseCall(c)
    \/ \E c \in Closers : CloseBegin(c)
    \/ \E c \in Closers : CloseEnd(c)
    \/ \E h \in Handles : Run(h)
    \/ \E h \in Handles : Start(h)
    \/ \E h \in Handles : Wait(h)
    \/ \E h \in Handles : WaitReturn(h)
    \/ \E h \in Handles : \E i \in CallIds(h) : RunWatcher(h, i)
    \/ \E h \in Handles : \E i \in CallIds(h) : RunReturn(h, i)
    \/ \E h \in Handles : \E i \in CallIds(h) : StartSelect(h, i)
    \/ \E h \in Handles : \E i \in CallIds(h) : StartFinish(h, i)
    \/ \E h \in Handles : \E i \in CallIds(h) : RunCommandAbort(h, i)
    \/ \E h \in Handles : \E i \in CallIds(h) : CancelCtx(h, i)
    \/ RemoteEnds

Spec == Init /\ [][Next]_vars

\* The Go scheduler runs every goroutine that can take a step; callers and
\* the remote side are under no obligation.
FairSpec == Spec /\ WF_vars(Progress)

\* As FairSpec, and every remote command ends by itself sooner or later.
FairSpecExec == Spec /\ WF_vars(Progress) /\ WF_vars(RemoteEnds)

(***************************************************************************)
(* Package escape: Processor and Reader.                                   *)
(***************************************************************************)

\* The sequences that byte b completes: their counter stands at their last
\* byte and b is that byte.
Completes(b) ==
    {s \in DOMAIN escapes : s[escapes[s] + 1] = b /\ escapes[s] + 1 = Len(s)}

\* InsertByte that leaves the counter alone on a byte that matches neither
\* the expected byte nor the first one.
InsertByteNoReset(b) ==
    /\ Len(stream) < MaxStream
    /\ escapes' = [s \in DOMAIN escapes |->
                     IF s[escapes[s] + 1] = b
                     THEN IF escapes[s] + 1 = Len(s) THEN 0 ELSE escapes[s] + 1
                     ELSE IF s[1] = b THEN 1 ELSE escapes[s]]
    /\ stream' = Append(stream, b)
    /\ completedAt' = [s \in Seqs |->
                         IF s \in Completes(b) THEN completedAt[s] \cup {Len(stream) + 1}
                         ELSE completedAt[s]]
    /\ IF Completes(b) = {}
       THEN /\ sequenceFound' = {}
            /\ insertPanic' = FALSE
            /\ UNCHANGED firedAt
       ELSE \E s \in Completes(b) : \E panics \in BOOLEAN :
               /\ firedAt' = [firedAt EXCEPT ![s] = @ \cup {Len(stream) + 1}]
               /\ insertPanic' = panics
               /\ sequenceFound' = IF panics THEN {} ELSE {s}
    /\ UNCHANGED initial

\* InsertByte that lets the completing byte begin the next match of the
\* completed sequence.
InsertByteOverlapping(b) ==
    /\ Len(stream) < MaxStream
    /\ escapes' = [s \in DOMAIN escapes |->
                     IF s[escapes[s] + 1] = b /\ escapes[s] + 1 < Len(s)
                     THEN escapes[s] + 1
                     ELSE IF s[1] = b /\ Len(s) > 1 THEN 1 ELSE 0]
    /\ stream' = Append(stream, b)
    /\ completedAt' = [s \in Seqs |->
                         IF s \in Completes(b) THEN completedAt[s] \cup {Len(stream) + 1}
                         ELSE completedAt[s]]
    /\ IF Completes(b) = {}
       THEN /\ sequenceFound' = {}
            /\ insertPanic' = FALSE
            /\ UNCHANGED firedAt
       ELSE \E s \in Completes(b) : \E panics \in BOOLEAN :
               /\ firedAt' = [firedAt EXCEPT ![s] = @ \cup {Len(stream) + 1}]
               /\ insertPanic' = panics
               /\ sequenceFound' = IF panics THEN {} ELSE {s}
    /\ UNCHANGED initial

\* Processor.InsertByte(b), all of it under ep.mu: the counter of every
\* registered sequence is updated; seq and seqStr keep the completed sequence
\* the map iteration (of unspecified order) visited last, and only its
\* callback is called, after the loop. The callback is the user's and may
\* panic; nothing recovers, the deferred Unlock runs.
\* With the empty sequence among the keys (AddSequencePairs takes it), the
\* loop panics at kB[v], index out of range, when it comes to that key: the
\* keys visited before, any subset of the others, have their counters
\* updated, the rest are left, and no callback is called.
InsertByte(b) ==
    /\ Len(stream) < MaxStream
    /\ stream' = Append(stream, b)
    /\ IF <<>> \in DOMAIN escapes
       THEN /\ \E V \in SUBSET (DOMAIN escapes \ {<<>>}) :
                  /\ escapes' = [s \in DOMAIN escapes |->
                                    IF s \notin V THEN escapes[s]
                                    ELSE IF s[escapes[s] + 1] = b
                                    THEN IF escapes[s] + 1 = Len(s) THEN 0
                                         ELSE escapes[s] + 1
                                    ELSE IF s[1] = b THEN 1 ELSE 0]
                  /\ completedAt' = [s \in Seqs |->
                                        IF s \in V /\ s[escapes[s] + 1] = b
                                                   /\ escapes[s] + 1 = Len(s)
                                        THEN completedAt[s] \cup {Len(stream) + 1}
                                        ELSE completedAt[s]]
            /\ sequenceFound' = {}
            /\ insertPanic' = TRUE
            /\ UNCHANGED firedAt
       ELSE /\ escapes' = [s \in DOMAIN escapes |->
                             IF s[escapes[s] + 1] = b
                             THEN IF escapes[s] + 1 = Len(s) THEN 0 ELSE escapes[s] + 1
                             ELSE IF s[1] = b THEN 1 ELSE 0]
            /\ completedAt' = [s \in Seqs |->
                                 IF s \in Completes(b)
                                 THEN completedAt[s] \cup {Len(stream) + 1}
                                 ELSE completedAt[s]]
            /\ IF Completes(b) = {}
               THEN /\ sequenceFound' = {}
                    /\ insertPanic' = FALSE
                    /\ UNCHANGED firedAt
               ELSE \E s \in Completes(b) : \E panics \in BOOLEAN :
                       /\ firedAt' = [firedAt EXCEPT ![s] = @ \cup {Len(stream) + 1}]
                       /\ insertPanic' = panics
                       /\ sequenceFound' = IF panics THEN {} ELSE {s}
    /\ UNCHANGED initial

\* A caller gives the Processor one byte.
Insert(b) ==
    /\ InsertByte(b)
    /\ UNCHANGED notEscVars

\* Processor.AddSequencePairs with one pair: a sequence not yet in the map
\* enters it with counter 0, one already there keeps its counter; the
\* callback is replaced either way.
AddSequencePairs(s) ==
    /\ s \in DOMAIN escapes \/ Cardinality(DOMAIN escapes) < MaxAdded
    /\ escapes' = [t \in DOMAIN escapes \cup {s} |->
                     IF t \in DOMAIN escapes THEN escapes[t] ELSE 0]
    /\ UNCHANGED <<stream, completedAt, firedAt, sequenceFound, insertPanic, initial>>
    /\ UNCHANGED notEscVars

\* The same on a Processor whose mutex is modelled: what AddSequencePairs
\* does to the Processor between its Lock and its Unlock.
AddPairs(s) ==
    /\ s \in DOMAIN escapes \/ Cardinality(DOMAIN escapes) < MaxAdded
    /\ escapes' = [t \in DOMAIN escapes \cup {s} |->
                     IF t \in DOMAIN escapes THEN escapes[t] ELSE 0]
    /\ UNCHANGED <<stream, completedAt, firedAt, sequenceFound, insertPanic, initial>>

EscapeInit ==
    /\ SshInit
    /\ \E R \in SeqSets(MaxSeqs) : NewProcessor(R)
    /\ RdIdle
    /\ RecIdle("none")
    /\ ConnIdle("none", TRUE)
    /\ RpIdle(TRUE)
    /\ AuxIdle

EscapeNext == \E b \in Bytes : Insert(b)

\* A Processor made by NewProcessor(seqs...) and fed byte by byte, as
\* TestFindSequence does.
EscapeSpec == EscapeInit /\ [][EscapeNext]_vars

RegisterNext ==
    \/ \E b \in Bytes : Insert(b)
    \/ \E s \in Seqs \cup {<<>>} : AddSequencePairs(s)

\* A Processor made empty, with sequences registered while bytes come in.
RegisterSpec == Init /\ [][RegisterNext]_vars

(***************************************************************************)
(* The Processor's mutex: InsertByte, its callback and AddSequencePairs.   *)
(***************************************************************************)

\* The program counter of caller g of AddSequencePairs: the escape callback
\* or another goroutine.
PcOf(g) == IF g = "callback" THEN cbPc ELSE addPc

\* InsertByte(b) from ep.mu.Lock() through the loop to the call of the
\* completed sequence's callback, or to the return when nothing completed.
\* The Unlock is deferred, so the mutex stays with InsertByte.
InsertByteLock(b) ==
    /\ ibPc = "idle"
    /\ epMu = "free"
    /\ InsertByte(b)
    /\ epMu' = "InsertByte"
    /\ IF firedAt' # firedAt
       THEN ibPc' = "callback" /\ cbPc' = "running"
       ELSE ibPc' = "return" /\ UNCHANGED cbPc
    /\ UNCHANGED addPc
    /\ UNCHANGED notEscMuVars

\* The callback calls AddSequencePairs on the Processor it was called by,
\* which begins with ep.mu.Lock().
CallbackCalls ==
    /\ cbPc = "running"
    /\ cbPc' = "locking"
    /\ UNCHANGED <<epMu, ibPc, addPc>>
    /\ UNCHANGED escVars
    /\ UNCHANGED notEscMuVars

\* Another goroutine calls AddSequencePairs, which begins with ep.mu.Lock().
OtherCalls ==
    /\ addPc = "idle"
    /\ addPc' = "locking"
    /\ UNCHANGED <<epMu, ibPc, cbPc>>
    /\ UNCHANGED escVars
    /\ UNCHANGED notEscMuVars

\* AddSequencePairs of caller g gets the mutex, registers s and unlocks on
\* return.
AddLocked(g, s) ==
    /\ PcOf(g) = "locking"
    /\ epMu = "free"
    /\ AddPairs(s)
    /\ IF g = "callback"
       THEN cbPc' = "running" /\ UNCHANGED addPc
       ELSE addPc' = "idle" /\ UNCHANGED cbPc
    /\ UNCHANGED <<epMu, ibPc>>
    /\ UNCHANGED notEscMuVars

\* The callback returns (or panics) into InsertByte.
CallbackReturn ==
    /\ cbPc = "running"
    /\ cbPc' = "idle"
    /\ ibPc' = "return"
    /\ UNCHANGED <<epMu, addPc>>
    /\ UNCHANGED escVars
    /\ UNCHANGED notEscMuVars

\* InsertByte returns: the deferred ep.mu.Unlock().
InsertByteUnlock ==
    /\ ibPc = "return"
    /\ ibPc' = "idle"
    /\ epMu' = "free"
    /\ UNCHANGED <<cbPc, addPc>>
    /\ UNCHANGED escVars
    /\ UNCHANGED notEscMuVars

MutexNext ==
    \/ \E b \in Bytes : InsertByteLock(b)
    \/ CallbackCalls
    \/ OtherCalls
    \/ \E g \in {"callback", "other"}, s \in Seqs : AddLocked(g, s)
    \/ CallbackReturn
    \/ InsertByteUnlock

\* One goroutine feeds a Processor bytes, its callbacks and another
\* goroutine register sequences.
MutexSpec == Init /\ [][MutexNext]_vars

\* Read that returns at once when the source reports an error.
ReadSourceErrFirst(data, err) ==
    /\ rdPc \in {"idle", "returned", "panicked"}
    /\ Len(stream) + Len(data) <= MaxStream
    /\ srcRet' = [n |-> Len(data), err |-> err, bytes |-> data]
    /\ p' = data
    /\ rdStart' = Len(stream)
    /\ rdPos' = 0
    /\ IF err = "nil"
       THEN rdPc' = "loop" /\ UNCHANGED rdRet
       ELSE rdPc' = "returned" /\ rdRet' = [n |-> Len(data), err |-> err]
    /\ UNCHANGED notRdVars

\* Reader.Read(p) calls er.source.Read(p): the source puts data into p and
\* returns its length and err.
ReadSource(data, err) ==
    /\ rdPc \in {"idle", "returned", "panicked"}
    /\ Len(stream) + Len(data) <= MaxStream
    /\ srcRet' = [n |-> Len(data), err |-> err, bytes |-> data]
    /\ p' = data
    /\ rdStart' = Len(stream)
    /\ rdPos' = 0
    /\ rdPc' = "loop"
    /\ UNCHANGED rdRet
    /\ UNCHANGED notRdVars

\* One round of Read's loop over p[:read]: er.ep.InsertByte(b). A panic of
\* the callback leaves Read.
ReadInsert ==
    /\ rdPc = "loop"
    /\ rdPos < srcRet.n
    /\ InsertByte(p[rdPos + 1])
    /\ rdPos' = rdPos + 1
    /\ rdPc' = IF insertPanic' THEN "panicked" ELSE "loop"
    /\ UNCHANGED <<srcRet, p, rdStart, rdRet>>
    /\ UNCHANGED notEscRdVars

\* Read returns read and err (nil when the source gave nil).
ReadReturn ==
    /\ rdPc = "loop"
    /\ rdPos = srcRet.n
    /\ rdRet' = IF srcRet.err # "nil" THEN [n |-> srcRet.n, err |-> srcRet.err]
                ELSE [n |-> srcRet.n, err |-> "nil"]
    /\ rdPc' = "returned"
    /\ UNCHANGED <<srcRet, p, rdStart, rdPos>>
    /\ UNCHANGED notRdVars

\* What a source can return from one Read call.
Chunks == UNION {[1..n -> Bytes] : n \in 0..MaxRead}

ReaderInit ==
    /\ SshInit
    /\ \E R \in SeqSets(1) : NewProcessor(R)
    /\ RdIdle
    /\ RecIdle("none")
    /\ ConnIdle("none", TRUE)
    /\ RpIdle(TRUE)
    /\ AuxIdle

ReaderNext ==
    \/ \E data \in Chunks : \E err \in {"nil", "EOF", "fail"} : ReadSource(data, err)
    \/ ReadInsert
    \/ ReadReturn

\* A Reader from NewReader(source, seq, fn) or NewReader(source): its Processor is reachable through Read only.
ReaderSpec == ReaderInit /\ [][ReaderNext]_vars

(***************************************************************************)
(* The Recorder's event buffers (stdout and stderr share Recorder.entries   *)
(* and Recorder.writeMu).                                                  *)
(***************************************************************************)

\* The payload of a log entry: its data is a slice of the stream's
\* bytes.Buffer, bufBytes[startOffset : startOffset+written].
Data(e) == SubSeq(buf[e.source], e.off + 1, e.off + e.len)

\* time.Since(t), a Time being <<>> when zero and <<clock>> otherwise: the
\* clock less t; the zero Time is so far back that the
\* difference saturates at the largest Duration.
Since(t) == IF t = <<>> THEN "maxDuration" ELSE now - t[1]

\* eventBuffer.Write(p) up to bufMu.Lock(): startOffset := eb.Len(), p
\* appended to the stream's own bytes.Buffer.
WriteBegin(st, data) ==
    /\ wPc[st] \in {"idle", "returned"}
    /\ Len(issued["stdout"]) + Len(issued["stderr"]) < MaxWrites
    /\ wP' = [wP EXCEPT ![st] = data]
    /\ wOff' = [wOff EXCEPT ![st] = Len(buf[st])]
    /\ buf' = [buf EXCEPT ![st] = @ \o data]
    /\ issued' = [issued EXCEPT ![st] = Append(@, data)]
    /\ wPc' = [wPc EXCEPT ![st] = "lock"]
    /\ UNCHANGED <<entries, wRet, now, passthrough, passed>>
    /\ UNCHANGED notRecVars

\* The append that slices the buffer from its beginning.
WriteAppendFromStart(st) ==
    /\ wPc[st] = "lock"
    /\ entries' = Append(entries, [timeOffset |-> Since(recordingStart), source |-> st,
                                    off |-> 0, len |-> Len(wP[st])])
    /\ wPc' = [wPc EXCEPT ![st] = "pass"]
    /\ UNCHANGED <<buf, wP, wOff, wRet, issued, now, passthrough, passed>>
    /\ UNCHANGED notRecVars

\* Write under bufMu: one outEvent appended to the shared log, its
\* timeOffset time.Since(eb.startTime) read with the lock held.
WriteAppend(st) ==
    /\ wPc[st] = "lock"
    /\ entries' = Append(entries, [timeOffset |-> Since(recordingStart), source |-> st,
                                    off |-> wOff[st], len |-> Len(wP[st])])
    /\ wPc' = [wPc EXCEPT ![st] = "pass"]
    /\ UNCHANGED <<buf, wP, wOff, wRet, issued, now, passthrough, passed>>
    /\ UNCHANGED notRecVars

\* What Write returns after the passthrough writer, of the kind pt, was
\* handed payload: a good writer takes it all; a failing one returns an
\* error; a short one takes all but the last byte without an error, which
\* Write turns into its "bad writer" error.
PassResult(pt, payload) ==
    IF pt = "failing" THEN [n |-> 0, err |-> "failing"]
    ELSE IF pt = "short" /\ payload # <<>> THEN [n |-> Len(payload) - 1, err |-> "short"]
    ELSE [n |-> Len(payload), err |-> "nil"]

\* The rest of Write that hands p to the passthrough writer once more when
\* the first attempt did not go through.
WritePassRetrying(st) ==
    /\ wPc[st] = "pass"
    /\ wPc' = [wPc EXCEPT ![st] = "returned"]
    /\ passed' = IF passthrough = "none" THEN passed
                 ELSE IF PassResult(passthrough, wP[st]).err = "nil"
                 THEN Append(passed, <<st, wP[st]>>)
                 ELSE passed \o << <<st, wP[st]>>, <<st, wP[st]>> >>
    /\ wRet' = [wRet EXCEPT ![st] = PassResult(passthrough, wP[st])]
    /\ UNCHANGED <<entries, buf, wP, wOff, issued, now, passthrough>>
    /\ UNCHANGED notRecVars

\* The rest of Write, outside the lock: p goes to the passthrough writer if
\* there is one, whose error or short count is returned; else written, nil.
WritePass(st) ==
    /\ wPc[st] = "pass"
    /\ wPc' = [wPc EXCEPT ![st] = "returned"]
    /\ IF passthrough = "none"
       THEN /\ wRet' = [wRet EXCEPT ![st] = [n |-> Len(wP[st]), err |-> "nil"]]
            /\ UNCHANGED passed
       ELSE /\ passed' = Append(passed, <<st, wP[st]>>)
            /\ wRet' = [wRet EXCEPT ![st] = PassResult(passthrough, wP[st])]
    /\ UNCHANGED <<entries, buf, wP, wOff, issued, now, passthrough>>
    /\ UNCHANGED notRecVars

\* Time passes.
Tick ==
    /\ now < MaxTime
    /\ now' = now + 1
    /\ UNCHANGED <<entries, buf, wPc, wP, wOff, wRet, issued, passthrough, passed>>
    /\ UNCHANGED notRecVars

RecorderInit ==
    /\ SshInit
    /\ NewProcessor({})
    /\ RdIdle
    /\ \E pt \in {"none", "good", "failing", "short"} : RecIdle(pt)
    /\ ConnIdle("none", TRUE)
    /\ RpIdle(TRUE)
    /\ AuxIdle

RecorderNext ==
    \/ \E st \in Streams : \E data \in Payloads : WriteBegin(st, data)
    \/ \E st \in Streams : WriteAppend(st)
    \/ \E st \in Streams : WritePass(st)
    \/ Tick

\* One goroutine per stream writes to the Recorder of a running command.
RecorderSpec == RecorderInit /\ [][RecorderNext]_vars

(***************************************************************************)
(* eventBuffer.ReadFrom, on the stdout buffer.                             *)
(***************************************************************************)

\* ReadFrom(r) is called.
ReadFromCall ==
    /\ rfPc = "idle"
    /\ rfPc' = "loop"
    /\ UNCHANGED <<rfReads, rfChunk, rfLastErr, rfTotal, rfRet, rfSrc>>
    /\ UNCHANGED notRfVars

\* The top of the loop: r.Read(eb.scratch[:]) returns data and err. On
\* io.EOF ReadFrom returns totalRead + read and nil, with nothing written;
\* on nil or any other error totalRead grows by read and the loop goes on
\* to eb.Write(eb.scratch[:read]).
ReadFromRead(data, err) ==
    /\ rfPc = "loop"
    /\ Len(issued["stdout"]) = rfReads
    /\ wPc["stdout"] \in {"idle", "returned"}
    /\ err # "EOF" => rfReads < MaxWrites
    /\ rfSrc' = rfSrc \o data
    /\ rfLastErr' = err
    /\ IF err = "EOF"
       THEN /\ rfPc' = "returned"
            /\ rfRet' = rfTotal + Len(data)
            /\ UNCHANGED <<rfReads, rfChunk, rfTotal>>
       ELSE /\ rfTotal' = rfTotal + Len(data)
            /\ rfChunk' = data
            /\ rfReads' = rfReads + 1
            /\ UNCHANGED <<rfPc, rfRet>>
    /\ UNCHANGED notRfVars

\* The rest of the loop body: eb.Write(eb.scratch[:read]), whose result is
\* dropped.
ReadFromWrite ==
    /\ rfPc = "loop"
    /\ Len(issued["stdout"]) < rfReads
    /\ WriteBegin("stdout", rfChunk)

ReadFromNext ==
    \/ ReadFromCall
    \/ \E data \in Chunks, err \in {"nil", "EOF", "fail"} : ReadFromRead(data, err)
    \/ ReadFromWrite
    \/ WriteAppend("stdout")
    \/ WritePass("stdout")

\* ReadFrom copying a source into the stdout buffer of a Recorder.
ReadFromSpec == Init /\ [][ReadFromNext]_vars

(***************************************************************************)
(* SSH.RunCommand and its goroutine for WinCh.                             *)
(***************************************************************************)

\* The window dimensions a caller sends.
Dims == {"24x80", "50x132"}

\* RunCommand up to sess.Run or sess.Shell: NewSession, Setenv and
\* RequestPty, any of which can fail and return its wrapped error; then the
\* goroutine is spawned if WinCh is not nil and PreRunFunc is called.
RunCommandSetup(r) ==
    /\ rcPc = "new"
    /\ rcErr' = r
    /\ IF r # "nil"
       THEN /\ rcPc' = "returned"
            /\ rcRet' = r
            /\ winPc' = IF winPc = "nil" THEN "nil" ELSE "done"
       ELSE /\ rcPc' = "run"
            /\ winPc' = IF winPc = "nil" THEN "nil" ELSE "select"
            /\ UNCHANGED rcRet
    /\ UNCHANGED <<rcRunErr, winCh, winSent, winCur, winReqs>>
    /\ UNCHANGED notWinVars

\* The caller sends dimensions on WinCh.
WinSend(d) ==
    /\ winPc # "nil"
    /\ winSent < MaxDims
    /\ winCh' = Append(winCh, d)
    /\ winSent' = winSent + 1
    /\ UNCHANGED <<rcPc, rcErr, rcRunErr, rcRet, winPc, winCur, winReqs>>
    /\ UNCHANGED notWinVars

\* The goroutine's select takes dims := <-config.WinCh.
WinReceive ==
    /\ winPc = "select"
    /\ winCh # <<>>
    /\ winCur' = Head(winCh)
    /\ winCh' = Tail(winCh)
    /\ winPc' = "changing"
    /\ UNCHANGED <<rcPc, rcErr, rcRunErr, rcRet, winSent, winReqs>>
    /\ UNCHANGED notWinVars

\* err = sess.WindowChange(dims.Height, dims.Width): the request is made
\* and its result assigned to the err of RunCommand, which the closure
\* shares; a failure is given to the logger. The goroutine ends.
WinChange(r) ==
    /\ winPc = "changing"
    /\ winReqs' = Append(winReqs, winCur)
    /\ rcErr' = r
    /\ winPc' = "done"
    /\ UNCHANGED <<rcPc, rcRunErr, rcRet, winCh, winSent, winCur>>
    /\ UNCHANGED notWinVars

\* The goroutine's select takes <-doneC, closed when RunCommand returns.
WinDone ==
    /\ winPc = "select"
    /\ rcPc = "returned"
    /\ winPc' = "done"
    /\ UNCHANGED <<rcPc, rcErr, rcRunErr, rcRet, winCh, winSent, winCur, winReqs>>
    /\ UNCHANGED notWinVars

\* err = sess.Run(config.Command), or sess.Shell(), returns r.
RunEnds(r) ==
    /\ rcPc = "run"
    /\ rcErr' = r
    /\ rcRunErr' = r
    /\ rcPc' = "ran"
    /\ UNCHANGED <<rcRet, winPc, winCh, winSent, winCur, winReqs>>
    /\ UNCHANGED notWinVars

\* if err != nil { return errors.Wrap(err, ...) }; return nil: what is
\* returned follows the value err holds when it is read. The deferred
\* PostRunFunc and close(doneC) run.
RunCommandReturn ==
    /\ rcPc = "ran"
    /\ rcRet' = rcErr
    /\ rcPc' = "returned"
    /\ UNCHANGED <<rcErr, rcRunErr, winPc, winCh, winSent, winCur, winReqs>>
    /\ UNCHANGED notWinVars

WinInit ==
    /\ SshInit
    /\ NewProcessor({})
    /\ RdIdle
    /\ RecIdle("none")
    /\ ConnIdle("none", TRUE)
    /\ RpIdle(TRUE)
    /\ MuIdle
    /\ RfIdle
    /\ \E w \in {"nil", "unspawned"} : WinIdle(w)
    /\ SigIdle

WinNext ==
    \/ \E r \in {"nil", "session error", "setenv error", "pty error"} : RunCommandSetup(r)
    \/ \E d \in Dims : WinSend(d)
    \/ WinReceive
    \/ \E r \in {"nil", "window-change error"} : WinChange(r)
    \/ WinDone
    \/ \E r \in {"nil", "run error"} : RunEnds(r)
    \/ RunCommandReturn

\* One RunCommand, with or without WinCh, and a caller sending dimensions.
WinSpec == WinInit /\ [][WinNext]_vars

(***************************************************************************)
(* Signal handling: BeginSignalHandling, SendSignal, StopSignalHandling.   *)
(***************************************************************************)

PanicCount == handlerPanics["os"] + handlerPanics["sent"]

\* BeginSignalHandling on a process not handling signals: handlersSet, the
\* handlers installed, the goroutine spawned and signal.Notify done before
\* it returns. (With handlersSet it returns ErrHandlersAlreadySet and
\* changes nothing.)
BeginSignalHandling ==
    /\ ~handlersSet
    /\ loopPc = "none"
    /\ handlersSet' = TRUE
    /\ loopPc' = "select"
    /\ osSigC' = <<>>
    /\ UNCHANGED <<sigC, sigSent, osArrived, sigCur, handlerPanics, loggedPanics, afterPanic,
                   staleHandled>>
    /\ UNCHANGED notSigVars

\* SendSignal(s): sigC <- s, which returns when the channel's buffer of
\* SigCap has room and blocks while it has none.
SendSignal ==
    /\ sigSent < MaxSends
    /\ Len(sigC) < SigCap
    /\ sigC' = Append(sigC, handlersSet)
    /\ sigSent' = sigSent + 1
    /\ UNCHANGED <<handlersSet, loopPc, osSigC, osArrived, sigCur, handlerPanics, loggedPanics,
                   afterPanic, staleHandled>>
    /\ UNCHANGED notSigVars

\* An OS signal reaches the process while signal.Notify(osSigC) is in
\* force: it is put on osSigC, or dropped when osSigC is full.
OsSignal ==
    /\ loopPc # "none"
    /\ osArrived < MaxOsSignals
    /\ osArrived' = osArrived + 1
    /\ osSigC' = IF Len(osSigC) < SigCap THEN Append(osSigC, "os") ELSE osSigC
    /\ UNCHANGED <<handlersSet, loopPc, sigC, sigSent, sigCur, handlerPanics, loggedPanics,
                   afterPanic, staleHandled>>
    /\ UNCHANGED notSigVars

\* The loop's select takes sig := <-osSigC and calls its handler.
TakeOsSignal ==
    /\ loopPc = "select"
    /\ osSigC # <<>>
    /\ osSigC' = Tail(osSigC)
    /\ sigCur' = "os"
    /\ loopPc' = "handling"
    /\ afterPanic' = (afterPanic \/ PanicCount > 0)
    /\ UNCHANGED <<handlersSet, sigC, sigSent, osArrived, handlerPanics, loggedPanics,
                   staleHandled>>
    /\ UNCHANGED notSigVars

\* The loop's select takes sig := <-sigC and calls its handler.
TakeSentSignal ==
    /\ loopPc = "select"
    /\ sigC # <<>>
    /\ sigC' = Tail(sigC)
    /\ sigCur' = "sent"
    /\ loopPc' = "handling"
    /\ afterPanic' = (afterPanic \/ PanicCount > 0)
    /\ staleHandled' = (staleHandled \/ ~Head(sigC))
    /\ UNCHANGED <<handlersSet, osSigC, sigSent, osArrived, handlerPanics, loggedPanics>>
    /\ UNCHANGED notSigVars

\* The handler that panics and takes the goroutine, unrecovered, with it.
HandlerEndsUnrecovered(panics) ==
    /\ loopPc = "handling"
    /\ panics => PanicCount < MaxPanics
    /\ loopPc' = IF panics THEN "none" ELSE "select"
    /\ handlerPanics' = IF panics THEN [handlerPanics EXCEPT ![sigCur] = @ + 1] ELSE handlerPanics
    /\ sigCur' = "none"
    /\ UNCHANGED <<handlersSet, sigC, osSigC, sigSent, osArrived, loggedPanics, afterPanic,
                   staleHandled>>
    /\ UNCHANGED notSigVars

\* The handler, the user's, returns or panics; the deferred function of the
\* func literal around the call recovers the panic and logs it with
\* logger.Errorf, and the loop goes back to its select.
HandlerEnds(panics) ==
    /\ loopPc = "handling"
    /\ panics => PanicCount < MaxPanics
    /\ loopPc' = "select"
    /\ handlerPanics' = IF panics THEN [handlerPanics EXCEPT ![sigCur] = @ + 1] ELSE handlerPanics
    /\ loggedPanics' = IF panics THEN [loggedPanics EXCEPT ![sigCur] = @ + 1] ELSE loggedPanics
    /\ sigCur' = "none"
    /\ UNCHANGED <<handlersSet, sigC, osSigC, sigSent, osArrived, afterPanic, staleHandled>>
    /\ UNCHANGED notSigVars

\* StopSignalHandling with the loop in its select: stopC <- struct{}{} is
\* taken, the loop returns (signal.Stop deferred), the handlers are made
\* no-ops and handlersSet is cleared. sigC keeps what it holds.
StopSignalHandling ==
    /\ handlersSet
    /\ loopPc = "select"
    /\ loopPc' = "none"
    /\ handlersSet' = FALSE
    /\ osSigC' = <<>>
    /\ UNCHANGED <<sigC, sigSent, osArrived, sigCur, handlerPanics, loggedPanics, afterPanic,
                   staleHandled>>
    /\ UNCHANGED notSigVars

SignalNext ==
    \/ BeginSignalHandling
    \/ SendSignal
    \/ OsSignal
    \/ TakeOsSignal
    \/ TakeSentSignal
    \/ \E panics \in BOOLEAN : HandlerEnds(panics)
    \/ StopSignalHandling

\* A process that begins and stops signal handling, gets OS signals and
\* sends itself signals.
SignalSpec == Init /\ [][SignalNext]_vars

(***************************************************************************)
(* Recorder.Replay.                                                        *)
(***************************************************************************)

\* The byte counts a writer can return for a payload.
Counts == {Len(pl) : pl \in Payloads}

\* The values of speedMultiplier told apart.
Multipliers == {"0", "1", "2", "-1", "+Inf", "NaN"}

\* The validation that tests the sign alone.
InvalidMultiplierSignOnly(sm) == sm = "-1"

\* sm < 0 || math.IsInf(sm, 0) || math.IsNaN(sm)
InvalidMultiplier(sm) == sm \in {"-1", "+Inf", "NaN"}

\* time.Duration(float64(entry.timeOffset) / sm), which truncates; at sm 1
\* the offset itself.
Scaled(offset, sm) == IF sm = "2" THEN offset \div 2 ELSE offset

\* The writer fn is handed for an entry: out for stdout, err for stderr.
WriterOf(e) == IF e.source = "stdout" THEN rpOut ELSE rpErr

\* What a writer takes from one call of fn's loop body that accepts bytes:
\* stderr entries go through color.New(color.FgGreen).Fprint, which puts
\* the colour's escape code before the text and the reset code after it
\* unless colour is off.
Emitted(e, bytes) ==
    IF e.source = "stderr" /\ ~noColor
    THEN <<"ESC[32m">> \o bytes \o <<"ESC[0m">>
    ELSE bytes

\* Replay up to the loop: panic on two nil writers, a nil writer replaced by
\* the other, the multiplier validated, replayStart taken.  Replay reads
\* Recorder.entries without a lock, so it is called with no Write under way.
ReplayCall(out, err, sm) ==
    /\ rpPc = "idle"
    /\ \A st \in Streams : wPc[st] \in {"idle", "returned"}
    /\ IF out = "nil" /\ err = "nil"
       THEN /\ rpPc' = "panicked"
            /\ UNCHANGED <<rpOut, rpErr, rpSm, rpI, replayStart, elapsed, rpRet>>
       ELSE /\ rpOut' = IF out = "nil" THEN err ELSE out
            /\ rpErr' = IF err = "nil" THEN out ELSE err
            /\ rpSm' = sm
            /\ IF InvalidMultiplier(sm)
               THEN /\ rpPc' = "returned"
                    /\ rpRet' = "ErrInvalidMultiplier"
                    /\ UNCHANGED <<rpI, replayStart, elapsed>>
               ELSE /\ replayStart' = now
                    /\ elapsed' = 0
                    /\ IF entries = <<>>
                       THEN /\ rpPc' = "returned"
                            /\ rpRet' = "nil"
                            /\ UNCHANGED rpI
                       ELSE /\ rpPc' = "sleep"
                            /\ rpI' = 1
                            /\ UNCHANGED rpRet
    /\ UNCHANGED <<recordingStart, lastStart, events, noColor, rpOff, sink, delays, writeLog>>
    /\ UNCHANGED recVars
    /\ UNCHANGED notRecRpVars

\* The top of the loop body for entry rpI: no sleep at multiplier 0, else
\* time.Sleep(offset/sm - elapsed), which returns at once when that is not
\* positive; then elapsed = time.Since(replayStart).
ReplaySleep ==
    /\ rpPc = "sleep"
    /\ LET offset == Scaled(entries[rpI].timeOffset, rpSm)
           sleepDuration == IF rpSm = "0" THEN 0 ELSE offset - elapsed
           slept == IF sleepDuration > 0 THEN sleepDuration ELSE 0
       IN /\ now' = now + slept
          /\ elapsed' = now' - replayStart
          /\ delays' = Append(delays, [at |-> now, due |-> offset, slept |-> slept])
    /\ rpPc' = "write"
    /\ rpOff' = 0
    /\ UNCHANGED <<recordingStart, lastStart, events, noColor, rpOut, rpErr, rpSm, rpI,
                   replayStart, rpRet, sink, writeLog>>
    /\ UNCHANGED <<entries, buf, wPc, wP, wOff, wRet, issued, passthrough, passed>>
    /\ UNCHANGED notRecRpVars

\* The error test that never finds an error.
WriteFailedNever(err) == FALSE

\* if err != nil { return err }, in fn and again in the loop of Replay.
WriteFailed(err) == err # "nil"

\* One turn of fn's loop for entry rpI: entry.data[offset:] is handed to
\* the writer, which takes n bytes of it and returns error err.  An error
\* returns from Replay; a short count moves offset on; a full count goes to
\* the next entry or returns nil.  (A writer taking nothing without an
\* error breaks io.Writer's contract and is left out.)
ReplayWrite(n, err) ==
    /\ rpPc = "write"
    /\ LET e == entries[rpI]
           rest == SubSeq(Data(e), rpOff + 1, e.len)
       IN /\ n \in 0..Len(rest)
          /\ err = "nil" => (n > 0 \/ rest = <<>>)
          /\ sink' = [sink EXCEPT ![WriterOf(e)] = @ \o Emitted(e, SubSeq(rest, 1, n))]
          /\ writeLog' = Append(writeLog, [entry |-> rpI, from |-> rpOff, at |-> now,
                                            n |-> n, err |-> err])
          /\ IF WriteFailed(err)
             THEN /\ rpPc' = "returned"
                  /\ rpRet' = err
                  /\ UNCHANGED <<rpI, rpOff>>
             ELSE IF rpOff + n < e.len
             THEN /\ rpOff' = rpOff + n
                  /\ UNCHANGED <<rpPc, rpI, rpRet>>
             ELSE IF rpI = Len(entries)
             THEN /\ rpPc' = "returned"
                  /\ rpRet' = "nil"
                  /\ UNCHANGED <<rpI, rpOff>>
             ELSE /\ rpPc' = "sleep"
                  /\ rpI' = rpI + 1
                  /\ UNCHANGED <<rpOff, rpRet>>
    /\ UNCHANGED <<recordingStart, lastStart, events, noColor, rpOut, rpErr, rpSm,
                   replayStart, elapsed, delays>>
    /\ UNCHANGED recVars
    /\ UNCHANGED notRecRpVars

\* Time passes while Replay runs.
ReplayTick ==
    /\ rpPc \in {"sleep", "write"}
    /\ now - replayStart <= MaxTime
    /\ now' = now + 1
    /\ UNCHANGED <<entries, buf, wPc, wP, wOff, wRet, issued, passthrough, passed>>
    /\ UNCHANGED rpVars
    /\ UNCHANGED notRecRpVars

RECURSIVE Concat(_, _)
\* The payloads of the events of W that come from stream st, joined.
Concat(W, st) ==
    IF W = <<>> THEN <<>>
    ELSE (IF W[1].source = st THEN W[1].data ELSE <<>>) \o Concat(Tail(W), st)

\* A Recorder that recorded the events W, each with a source, a payload and
\* a time offset, and whose Writes have all returned.
Recorded(W) ==
    /\ entries = [i \in 1..Len(W) |->
                    [timeOffset |-> W[i].timeOffset, source |-> W[i].source,
                     off |-> Len(Concat(SubSeq(W, 1, i - 1), W[i].source)),
                     len |-> Len(W[i].data)]]
    /\ buf = [st \in Streams |-> Concat(W, st)]
    /\ wPc = [st \in Streams |-> IF Concat(W, st) = <<>> THEN "idle" ELSE "returned"]
    /\ wP = [st \in Streams |-> <<>>]
    /\ wOff = [st \in Streams |-> 0]
    /\ wRet = [st \in Streams |-> [n |-> 0, err |-> "nil"]]
    /\ issued = [st \in Streams |-> <<>>]
    /\ now = IF W = <<>> THEN 0 ELSE W[Len(W)].timeOffset
    /\ passthrough = "none"
    /\ passed = <<>>

\* The recorded logs replayed: up to MaxEntries events, payloads of one or
\* two bytes, all at offset 0.
Logs ==
    UNION {[1..k -> [source : Streams, data : {<<"a">>, <<"b", "a">>}, timeOffset : {0}]] :
           k \in 0..MaxEntries}

ReplayInit ==
    /\ SshInit
    /\ NewProcessor({})
    /\ RdIdle
    /\ \E W \in Logs : Recorded(W)
    /\ ConnIdle("none", TRUE)
    /\ \E nc \in BOOLEAN : RpIdle(nc)
    /\ AuxIdle

ReplayNext ==
    \/ \E out, err \in Writers \cup {"nil"}, sm \in Multipliers \ {"1", "2"} : ReplayCall(out, err, sm)
    \/ ReplaySleep
    \/ \E n \in Counts, err \in {"nil", "EIO"} : ReplayWrite(n, err)

\* Replay of a recorded log onto the writers a caller supplies.
ReplaySpec == ReplayInit /\ [][ReplayNext]_vars

\* The recorded logs replayed in time: up to MaxEntries one-byte stdout
\* events at non-decreasing offsets up to MaxTime.
TimedLogs ==
    {W \in UNION {[1..k -> [source : {"stdout"}, data : {<<"a">>}, timeOffset : 0..MaxTime]] :
                    k \in 0..MaxEntries} :
        \A i \in 1..Len(W) - 1 : W[i].timeOffset <= W[i + 1].timeOffset}

ReplayTimingInit ==
    /\ SshInit
    /\ NewProcessor({})
    /\ RdIdle
    /\ \E W \in TimedLogs : Recorded(W)
    /\ ConnIdle("none", TRUE)
    /\ RpIdle(TRUE)
    /\ AuxIdle

ReplayTimingNext ==
    \/ \E sm \in {"0", "1", "2"} : ReplayCall("w1", "nil", sm)
    \/ ReplaySleep
    \/ \E n \in Counts : ReplayWrite(n, "nil")
    \/ ReplayTick

\* Replay at a valid multiplier onto a writer that takes everything, with
\* the clock running.
ReplayTimingSpec == ReplayTimingInit /\ [][ReplayTimingNext]_vars

(***************************************************************************)
(* The Recorder's baseline and its special events.                         *)
(***************************************************************************)

\* The startTiming that takes the clock at every call.
StartTimingEveryCall ==
    /\ recordingStart' = <<now>>
    /\ lastStart' = <<now>>
    /\ UNCHANGED <<events, noColor, rpPc, rpOut, rpErr, rpSm, rpI, rpOff,
                   replayStart, elapsed, rpRet, sink, delays, writeLog>>
    /\ UNCHANGED recVars
    /\ UNCHANGED notRecRpVars

\* startTiming: under stateMu, recordingStart (and with it the startTime of
\* both event buffers) is set to time.Now() if it IsZero, else left alone.
StartTiming ==
    /\ recordingStart' = IF recordingStart = <<>> THEN <<now>> ELSE recordingStart
    /\ lastStart' = <<now>>
    /\ UNCHANGED <<events, noColor, rpPc, rpOut, rpErr, rpSm, rpI, rpOff,
                   replayStart, elapsed, rpRet, sink, delays, writeLog>>
    /\ UNCHANGED recVars
    /\ UNCHANGED notRecRpVars

\* The AddSpecialEvent that puts the new event in front.
AddSpecialEventInFront(eventType, details) ==
    /\ Len(events) < MaxEvents
    /\ events' = <<[EventType |-> eventType, Timestamp |-> now, Details |-> details]>>
                    \o events
    /\ UNCHANGED <<recordingStart, lastStart, noColor, rpPc, rpOut, rpErr, rpSm, rpI,
                   rpOff, replayStart, elapsed, rpRet, sink, delays, writeLog>>
    /\ UNCHANGED recVars
    /\ UNCHANGED notRecRpVars

\* AddSpecialEvent(eventType, details): under eventsMu, one SpecialEvent
\* with Timestamp time.Now() appended to Recorder.events.
AddSpecialEvent(eventType, details) ==
    /\ Len(events) < MaxEvents
    /\ events' = Append(events, [EventType |-> eventType, Timestamp |-> now,
                                  Details |-> details])
    /\ UNCHANGED <<recordingStart, lastStart, noColor, rpPc, rpOut, rpErr, rpSm, rpI,
                   rpOff, replayStart, elapsed, rpRet, sink, delays, writeLog>>
    /\ UNCHANGED recVars
    /\ UNCHANGED notRecRpVars

\* GetSpecialEvents(): Recorder.events, read under eventsMu.
GetSpecialEvents == events

\* A Write of the running command to its stdout, up to MaxEntries of them:
\* output is recorded before the recording is replayed.
Record ==
    /\ rpPc = "idle"
    /\ Len(issued["stdout"]) < MaxEntries
    /\ WriteBegin("stdout", <<"a">>)

\* A Recorder on which setOutput was called and startTiming was not.
BaselineInit ==
    /\ SshInit
    /\ NewProcessor({})
    /\ RdIdle
    /\ RecIdle("none")
    /\ ConnIdle("none", TRUE)
    /\ RpState(<<>>, TRUE)
    /\ AuxIdle

BaselineNext ==
    \/ StartTiming
    \/ AddSpecialEvent("escape", "test")
    \/ Record
    \/ WriteAppend("stdout")
    \/ WritePass("stdout")
    \/ Tick
    \/ ReplayCall("w1", "nil", "0")
    \/ ReplaySleep
    \/ \E n \in Counts : ReplayWrite(n, "nil")

\* A Recorder on which startTiming is called at any time and any number of
\* times, beside the command's output, special events and Replay.
BaselineSpec == BaselineInit /\ [][BaselineNext]_vars

\* A Recorder on which setOutput and startTiming were called.
EventsInit ==
    /\ SshInit
    /\ NewProcessor({})
    /\ RdIdle
    /\ RecIdle("none")
    /\ ConnIdle("none", TRUE)
    /\ RpIdle(TRUE)
    /\ AuxIdle

EventsNext ==
    \/ \E eventType \in {"escape", "resize"} : AddSpecialEvent(eventType, "test")
    \/ Record
    \/ WriteAppend("stdout")
    \/ WritePass("stdout")
    \/ Tick
    \/ ReplayCall("w1", "nil", "0")
    \/ ReplaySleep
    \/ \E n \in Counts : ReplayWrite(n, "nil")

\* A Recorder that takes special events beside the command's output and
\* Replay.
EventsSpec == EventsInit /\ [][EventsNext]_vars

(***************************************************************************)
(* Connecting: NewSSHTarget, getClient, NewSSH.                            *)
(***************************************************************************)

\* NewSSHTarget up to getClient: the loop over opts takes the last
\* HostKeyCallback among them, then hkc is assigned
\* session.InsecureIgnoreHostKey() whatever the loop found.
NewSSHTarget ==
    /\ nsPc = "new"
    /\ hostKeyCB' = "ignore"
    /\ nsPc' = "dial"
    /\ UNCHANGED <<hostKeyOpt, keyTrusted, watcherPc, connCtxDone, midHandshake,
                   connClosed, contextError, hsErr, nsRet>>
    /\ UNCHANGED notConnVars

\* getClient: st.dialer.DialContext(ctx, ...) returns a connection, or an
\* error (always an error once ctx is done); with a connection NewSSH is
\* entered and spawns its goroutine.
Dial(ok) ==
    /\ nsPc = "dial"
    /\ ok => ~connCtxDone
    /\ IF ok
       THEN /\ nsPc' = "handshake"
            /\ watcherPc' = "select"
            /\ UNCHANGED nsRet
       ELSE /\ nsPc' = "returned"
            /\ nsRet' = "dial error"
            /\ UNCHANGED watcherPc
    /\ UNCHANGED <<hostKeyOpt, keyTrusted, hostKeyCB, connCtxDone, midHandshake,
                   connClosed, contextError, hsErr>>
    /\ UNCHANGED notConnVars

\* The caller cancels the ctx it gave to NewSSHTarget.
CancelConnect ==
    /\ nsPc # "returned"
    /\ ~connCtxDone
    /\ connCtxDone' = TRUE
    /\ midHandshake' = (nsPc = "handshake")
    /\ UNCHANGED <<hostKeyOpt, keyTrusted, hostKeyCB, nsPc, watcherPc, connClosed,
                   contextError, hsErr, nsRet>>
    /\ UNCHANGED notConnVars

\* The goroutine of NewSSH takes <-ctx.Done(): contextError set, conn.Close(),
\* wg.Done().
WatcherCancelled ==
    /\ watcherPc = "select"
    /\ connCtxDone
    /\ contextError' = TRUE
    /\ connClosed' = TRUE
    /\ watcherPc' = "done"
    /\ UNCHANGED <<hostKeyOpt, keyTrusted, hostKeyCB, nsPc, connCtxDone, midHandshake,
                   hsErr, nsRet>>
    /\ UNCHANGED notConnVars

\* The goroutine of NewSSH takes <-sshConnCreatedC (closed after the
\* handshake): wg.Done().
WatcherCreated ==
    /\ watcherPc = "select"
    /\ nsPc = "created"
    /\ watcherPc' = "done"
    /\ UNCHANGED <<hostKeyOpt, keyTrusted, hostKeyCB, nsPc, connCtxDone, midHandshake,
                   connClosed, contextError, hsErr, nsRet>>
    /\ UNCHANGED notConnVars

\* ssh.NewClientConn returns and sshConnCreatedC is closed. It succeeds only
\* on an open connection and with a host key the callback in sshConf
\* accepts; it can fail at any time (transport, authentication).
HandshakeEnd(r) ==
    /\ nsPc = "handshake"
    /\ r = "nil" => /\ ~connClosed
                    /\ hostKeyCB = "ignore" \/ (hostKeyCB = "strict" /\ keyTrusted)
    /\ hsErr' = r
    /\ nsPc' = "created"
    /\ UNCHANGED <<hostKeyOpt, keyTrusted, hostKeyCB, watcherPc, connCtxDone, midHandshake,
                   connClosed, contextError, nsRet>>
    /\ UNCHANGED notConnVars

\* wg.Wait() is over: with err nil the client is returned, else
\* contextError if it is set, else the wrapped err.
NewSSHReturn ==
    /\ nsPc = "created"
    /\ watcherPc = "done"
    /\ nsRet' = IF hsErr = "nil" THEN "client"
                ELSE IF contextError THEN "cancelled" ELSE "handshake error"
    /\ nsPc' = "returned"
    /\ UNCHANGED <<hostKeyOpt, keyTrusted, hostKeyCB, watcherPc, connCtxDone, midHandshake,
                   connClosed, contextError, hsErr>>
    /\ UNCHANGED notConnVars

ConnectInit ==
    /\ SshInit
    /\ NewProcessor({})
    /\ RdIdle
    /\ RecIdle("none")
    /\ \E opt \in {"none", "strict", "ignore"} : \E trusted \in BOOLEAN :
          ConnIdle(opt, trusted)
    /\ RpIdle(TRUE)
    /\ AuxIdle

ConnectNext ==
    \/ NewSSHTarget
    \/ \E ok \in BOOLEAN : Dial(ok)
    \/ CancelConnect
    \/ WatcherCancelled
    \/ WatcherCreated
    \/ \E r \in {"nil", "err"} : HandshakeEnd(r)
    \/ NewSSHReturn

\* One call of NewSSHTarget, whose ctx the caller may cancel at any time.
ConnectSpec == ConnectInit /\ [][ConnectNext]_vars

(***************************************************************************)
(* Properties.                                                             *)
(***************************************************************************)

\* The step in which Close call c closes the underlying connection.
ClosesConnection(c) == closePc[c] = "wait" /\ closePc'[c] = "returned"

\* C1: however many Close calls are made, and however they interleave, the
\* SSH client is closed at most once, exactly once as soon as some call has
\* returned, every call that returns returns nil, and a call that finds the
\* target closed changes nothing but its own position and result.
C1_CloseIdempotent ==
    /\ [](/\ clientCloseCalls <= 1
          /\ \A c \in Closers :
                closePc[c] = "returned" => closeRet[c] = "nil" /\ clientCloseCalls = 1)
    /\ [][\A c \in Closers :
            (isClosed /\ closePc[c] = "lock" /\ closePc'[c] # "lock")
                => UNCHANGED <<stMu, isClosed, sessionCancelled, wg, nSessions,
                               clientCloseCalls, clientCloseErr, panicked, sessionVars>>]_vars

\* Two Close calls have returned on a target that ran a command.
C1_Witness ==
    /\ closePc[1] = "returned" /\ closePc[2] = "returned"
    /\ clientCloseCalls = 1
    /\ NumCalls >= 1

\* C2: when Close closes the connection, the session context has been
\* cancelled and the finish callback of every registered handle has fired.
C2_CloseAfterEveryFinish ==
    [][\A c \in Closers :
          ClosesConnection(c)
              => sessionCancelled /\ \A h \in Registered : finishCalls[h] >= 1]_vars

\* C3: when Close closes the connection, no RunCommand call of any session is
\* in progress.
C3_DrainBeforeClose ==
    [][\A c \in Closers :
          ClosesConnection(c)
              => \A h \in Registered : \A i \in CallIds(h) :
                    calls[h][i].exec # "running"]_vars

\* C4: Close returns without any further call by its callers: as long as a
\* Close call is pending, a goroutine of the program can take a step or a
\* remote command is still to end.
C4_CloseReturns ==
    \A c \in Closers :
        (closePc[c] \in {"lock", "wait"} /\ ~panicked)
            => (ENABLED Progress) \/ (ENABLED RemoteEnds)

\* The single invocation made on handle h is on one of the paths on which its
\* goroutine has to end: a context it watches is done, or RunCommand returned
\* (for Start: with Wait at its receive).
OnEndingPath(h) ==
    /\ Len(calls[h]) = 1
    /\ \/ calls[h][1].callerDone
       \/ sessionCancelled
       \/ /\ calls[h][1].exec = "done"
          /\ calls[h][1].kind = "run" \/ waitPc[h] = "blocked"

\* C5: a handle invoked exactly once never fires its finish callback twice,
\* and on every ending path its goroutine exits and the callback fires: until
\* then a goroutine of the program can take a step, whatever the remote side
\* and the callers do.
C5_WatcherEndsFinishOnce ==
    \A h \in Handles :
        /\ Len(calls[h]) = 1 => finishCalls[h] <= 1
        /\ (OnEndingPath(h) /\ calls[h][1].w # "exited" /\ ~panicked)
              => ENABLED Progress

\* C6: on no handle is RunCommand entered, or the finish callback fired, more
\* than once.
C6_ExecutesAtMostOnce ==
    \A h \in Handles : execCalls[h] <= 1 /\ finishCalls[h] <= 1

\* Invocation i of handle h is a Run blocked in RunCommand.
RunBlocked(h, i) ==
    /\ i \in CallIds(h)
    /\ calls[h][i].kind = "run"
    /\ calls[h][i].pc = "exec"
    /\ calls[h][i].exec = "running"

RunReturned(h, i) ==
    /\ i \in CallIds(h)
    /\ calls[h][i].kind = "run"
    /\ calls[h][i].pc = "returned"

\* C7: a Run blocked in RunCommand whose caller context alone is cancelled
\* (session context live, connection open) returns whether or not the remote
\* command ever ends: a goroutine of the program can take a step.
C7_CallerCancelEndsRun ==
    \A h \in Handles : \A i \in 1..MaxCalls :
        (RunBlocked(h, i) /\ calls[h][i].callerDone /\ ~sessionCancelled
            /\ clientCloseCalls = 0 /\ ~panicked)
          => ENABLED Progress

\* C8: a Run in progress when the session context is cancelled, its caller
\* context live, returns whether or not the remote command ever ends: a
\* goroutine of the program can take a step.
C8_TargetCancelEndsRun ==
    \A h \in Handles : \A i \in 1..MaxCalls :
        (RunBlocked(h, i) /\ ~calls[h][i].late /\ sessionCancelled
            /\ ~calls[h][i].callerDone /\ ~panicked)
          => ENABLED Progress

\* C9: Wait never blocks forever: whenever Wait is blocked at its receive,
\* a goroutine of Start is left that can still send on errC (ss.mu is held
\* by Wait, so no later Start can supply one).
C9_WaitNeverStuck ==
    \A h \in Handles :
        waitPc[h] = "blocked"
            => \E i \in CallIds(h) :
                  calls[h][i].kind = "start" /\ calls[h][i].w \in {"select", "sent"}

\* C10: once Run has returned, or Wait has returned a result after Start,
\* the finish callback of the session has fired.
C10_DoneImpliesFinished ==
    \A h \in Handles :
        (\/ \E i \in CallIds(h) : RunReturned(h, i)
         \/ waitPc[h] = "returned" /\ waitRet[h] \in {"ok", "err"})
            => finishCalls[h] >= 1

\* What belongs to handle g alone.
HandleState(g) ==
    <<calls[g], ssMu[g], ctxSet[g], waitPc[g], waitRet[g], execCalls[g], finishCalls[g]>>

\* A step of session h that is no step of Close: its command ends or fails,
\* its caller's context is cancelled, one of its goroutines moves, or a call
\* is made on it.
SessionStep(h) == HandleState(h)' # HandleState(h) /\ closePc' = closePc

\* C11: sessions are isolated: no step of one session (the failure of its
\* command and the cancellation of its caller's context among them) cancels the
\* session context, closes the connection or changes anything of a sibling
\* handle; the session context is cancelled and the connection closed only
\* once Close has been called.
C11_SessionIsolation ==
    /\ [][\A h \in Handles :
            SessionStep(h)
                => /\ UNCHANGED <<sessionCancelled, isClosed, clientCloseCalls, stMu>>
                   /\ \A g \in Handles \ {h} : HandleState(g)' = HandleState(g)]_vars
    /\ []((sessionCancelled \/ isClosed \/ clientCloseCalls > 0)
            => \E c \in Closers : closePc[c] # "idle")

\* One session's command has failed, or its caller's context was cancelled,
\* and its goroutine has ended, while a sibling's command runs on the open
\* connection.
C11_Witness ==
    \E h \in Handles : \E g \in Handles \ {h} :
        /\ Len(calls[h]) = 1 /\ Len(calls[g]) = 1
        /\ calls[h][1].res = "err" \/ calls[h][1].callerDone
        /\ calls[h][1].w = "exited"
        /\ calls[g][1].exec = "running"
        /\ ~sessionCancelled /\ clientCloseCalls = 0

\* A Wait call on h finds ss.ctx nil and returns.
WaitWithoutStart(h) == ~ctxSet[h] /\ waitPc'[h] # waitPc[h]

\* What a Wait call on h without Start does: "no command running", returned
\* in the same step, nothing else of the handle or the target changed.
ReturnsUsageError(h) ==
    /\ waitPc'[h] = "returned"
    /\ waitRet'[h] = "usage"
    /\ ~panicked'
    /\ UNCHANGED <<targetVars, ssMu, ctxSet, calls, finishCalls, execCalls>>

\* A caller can make a Wait call on h.
CanCallWait(h) ==
    /\ h \in Registered
    /\ ~panicked
    /\ ops < MaxOps
    /\ waitPc[h] \in {"idle", "returned"}

\* C12: Wait on a handle on which Start was never called returns the usage
\* error at once, whatever else is going on: it does not block or panic and
\* leaves the handle as it was.
C12_WaitWithoutStartImmediate ==
    /\ [][\A h \in Handles : WaitWithoutStart(h) => ReturnsUsageError(h)]_vars
    /\ [](\A h \in Handles : (CanCallWait(h) /\ ~ctxSet[h]) => ENABLED Wait(h))

\* C12, amended: as C12, except that Wait first takes ss.mu, which a Run in
\* progress on the same handle holds until it returns; with ss.mu free the
\* usage error is returned at once.
C12_WaitWithoutStart ==
    /\ [][\A h \in Handles : WaitWithoutStart(h) => ReturnsUsageError(h)]_vars
    /\ [](\A h \in Handles :
            (CanCallWait(h) /\ ~ctxSet[h] /\ ssMu[h] = "free") => ENABLED Wait(h))

\* Wait has returned the usage error on a handle that Run was called on.
C12_Witness ==
    \E h \in Handles :
        /\ ~ctxSet[h]
        /\ waitPc[h] = "returned" /\ waitRet[h] = "usage"
        /\ Len(calls[h]) >= 1

\* The end positions of the occurrences of s in w found from position from
\* on, leftmost first, none overlapping another.
RECURSIVE DisjointEnds(_, _, _)
DisjointEnds(s, w, from) ==
    IF from + Len(s) - 1 > Len(w) THEN {}
    ELSE IF SubSeq(w, from, from + Len(s) - 1) = s
         THEN {from + Len(s) - 1} \cup DisjointEnds(s, w, from + Len(s))
         ELSE DisjointEnds(s, w, from + 1)

\* The positions of w at which the callback of s runs when s is the only
\* registered sequence: the counter c of s is run over w from position i on.
RECURSIVE AloneEnds(_, _, _, _)
AloneEnds(s, w, i, c) ==
    IF i > Len(w) THEN {}
    ELSE IF w[i] = s[c + 1]
         THEN IF c + 1 = Len(s) THEN {i} \cup AloneEnds(s, w, i + 1, 0)
              ELSE AloneEnds(s, w, i + 1, c + 1)
         ELSE AloneEnds(s, w, i + 1, IF w[i] = s[1] THEN 1 ELSE 0)

\* No two sequences of R begin with the same byte.
NoSharedPrefix(R) == \A s \in R : \A t \in R \ {s} : s[1] # t[1]

\* C13: with registered sequences none of which shares a prefix with
\* another, and any input given byte by byte, the callback of each sequence
\* has run exactly at the ends of its disjoint occurrences (leftmost first)
\* in the input, once each, and nowhere else.
C13_FiresOncePerOccurrence ==
    NoSharedPrefix(initial)
        => \A s \in initial : firedAt[s] = DisjointEnds(s, stream, 1)

\* C14: wherever the callback of s ran, the Len(s) bytes ending there are
\* exactly s, and none of them belongs to an earlier completed match of s.
C14_NoFalseMatch ==
    \A s \in Seqs : \A e \in firedAt[s] :
        /\ e >= Len(s)
        /\ SubSeq(stream, e - Len(s) + 1, e) = s
        /\ \A d \in completedAt[s] : d < e => d <= e - Len(s)

\* The input ends with an occurrence of s that overlaps a match of s counted
\* before, and the callback did not run for it.
C14_Witness ==
    \E s \in initial :
        /\ Len(s) >= 2 /\ Len(stream) > Len(s)
        /\ SubSeq(stream, Len(stream) - Len(s) + 1, Len(stream)) = s
        /\ Len(stream) - 1 \in firedAt[s]
        /\ Len(stream) \notin firedAt[s]

\* C15: when one byte completes several sequences, the callback of each of
\* them runs, once, and each of their counters is back at 0.
C15_EveryCompletedFires ==
    \A s \in Seqs :
        /\ firedAt[s] = completedAt[s]
        /\ (s \in DOMAIN escapes /\ Len(stream) \in completedAt[s]) => escapes[s] = 0

\* The last byte given completed sequence s.
JustCompleted(s) == Len(stream) \in completedAt[s]

\* C16: the byte that completes a match is used up by that match: after it
\* the counter of the matched sequence is 0 and the byte has not begun or
\* advanced a match of any registered sequence, so every counter is 0.
C16_CompletingByteConsumed ==
    (\E s \in Seqs : JustCompleted(s)) => \A t \in DOMAIN escapes : escapes[t] = 0

\* C16, amended: after the byte that completes a match of s the counter of s
\* is 0, also when that byte is the first byte of s; nothing is said of the
\* other sequences, whose counters that byte updates like any other byte.
C16_CompletedCounterReset ==
    \A s \in DOMAIN escapes : JustCompleted(s) => escapes[s] = 0

\* The last byte completed a sequence that begins with it, and began a match
\* of another sequence.
C16_Witness ==
    \E s \in DOMAIN escapes : \E t \in DOMAIN escapes \ {s} :
        /\ JustCompleted(s)
        /\ Len(s) >= 2 /\ s[1] = stream[Len(stream)]
        /\ escapes[s] = 0
        /\ escapes[t] = 1

\* s and t begin alike and differ in a later byte.
SharedProperPrefix(s, t) ==
    \E k \in 1..(MaxSeqLen - 1) :
        /\ k < Len(s) /\ k < Len(t)
        /\ SubSeq(s, 1, k) = SubSeq(t, 1, k)
        /\ s[k + 1] # t[k + 1]

\* C17: of two registered sequences that share a proper prefix and differ in
\* a later byte, each has its callback run exactly where it would run were
\* it the only registered sequence.
C17_SharedPrefixAsAlone ==
    \A s \in initial : \A t \in initial :
        (initial = {s, t} /\ SharedProperPrefix(s, t))
            => firedAt[s] = AloneEnds(s, stream, 1, 0)

\* C18: a Read of the escape Reader that has returned gave back the count
\* and the error of the source's Read, left the source's bytes in p, and
\* passed exactly those bytes, in order, to InsertByte; with a non-nil error
\* too.
C18_ReaderTransparent ==
    rdPc = "returned"
        => /\ rdRet.n = srcRet.n
           /\ rdRet.err = srcRet.err
           /\ p = srcRet.bytes
           /\ SubSeq(stream, rdStart + 1, Len(stream)) = srcRet.bytes

\* A Read has returned whose source gave two bytes together with an error,
\* and the second byte completed the registered sequence.
C18_Witness ==
    /\ rdPc = "returned"
    /\ srcRet.n = 2 /\ srcRet.err = "EOF"
    /\ rdRet = [n |-> 2, err |-> "EOF"]
    /\ \E s \in initial : Len(stream) \in firedAt[s] /\ Len(s) = 2

\* C19: no call of InsertByte ends in the panic of a callback: the panic is
\* caught inside InsertByte.
C19_CallbackPanicCaught == ~insertPanic

\* The entries of stream st, in log order.
StreamEntries(st) == SelectSeq(entries, LAMBDA e : e.source = st)

\* The Write calls of stream st that have done their append.
Appended(st) == IF wPc[st] = "lock" THEN Len(issued[st]) - 1 ELSE Len(issued[st])

\* C20: however the Writes of the two streams interleave, the log holds one
\* entry per Write, tagged with its stream and carrying its payload, the
\* entries of one stream in the order of its Writes, and the time offsets
\* never decrease along the log.
C20_LogMatchesWrites ==
    /\ \A i \in 1..Len(entries) : entries[i].source \in Streams
    /\ \A st \in Streams :
          /\ Len(StreamEntries(st)) = Appended(st)
          /\ \A i \in 1..Len(StreamEntries(st)) :
                Data(StreamEntries(st)[i]) = issued[st][i]
    /\ \A i \in 1..(Len(entries) - 1) :
          entries[i].timeOffset <= entries[i + 1].timeOffset

\* stdout has written twice and stderr once, with different payloads; the
\* entry of stderr lies between those of stdout, the entries were made at
\* different times, and the last Write of each stream is past its append
\* and has not returned.
C20_Witness ==
    /\ Len(entries) = 3
    /\ entries[1].source = "stdout" /\ entries[2].source = "stderr"
    /\ entries[3].source = "stdout"
    /\ issued["stdout"] = << <<"a">>, <<"b", "a">> >>
    /\ issued["stderr"] = << <<"b", "a">> >>
    /\ entries[1].timeOffset < entries[3].timeOffset
    /\ wPc["stdout"] = "pass" /\ wPc["stderr"] = "pass"

\* C30: a failure to close the underlying connection reaches the caller
\* once: the Close call that closed the connection returns the error when
\* that close failed, and every other Close call returns nil.
C30_CloseErrorReportedOnce ==
    /\ (clientCloseCalls > 0 /\ clientCloseErr)
          => \E c \in Closers : closePc[c] = "returned" /\ closeRet[c] = "err"
    /\ Cardinality({c \in Closers : closePc[c] = "returned" /\ closeRet[c] = "err"}) <= 1

\* C28: when ctx was cancelled while the handshake was running, NewSSH has
\* closed the connection and returns the cancelled error; when ctx was never
\* cancelled, a failed handshake is returned as the wrapped handshake error.
C28_CancelledHandshake ==
    nsPc = "returned" /\ nsRet # "dial error"
        => /\ midHandshake => (connClosed /\ nsRet = "cancelled")
           /\ (~connCtxDone /\ hsErr = "err") => nsRet = "handshake error"

\* C29: the host-key callback given through HostKeyValidationOption is the
\* one in use for the handshake, and no client is obtained from a server
\* whose key the given callback rejects.
C29_HostKeyPolicyUsed ==
    (hostKeyOpt # "none" /\ nsPc \notin {"new"})
        => /\ hostKeyCB = hostKeyOpt
           /\ (nsRet = "client" /\ hostKeyOpt = "strict") => keyTrusted

\* The payloads of the entries Replay hands to writer w, joined in log order.
RECURSIVE Routed(_, _)
Routed(w, k) ==
    IF k = 0 THEN <<>>
    ELSE Routed(w, k - 1) \o (IF WriterOf(entries[k]) = w THEN Data(entries[k]) ELSE <<>>)

\* What a writer took, less the colour escape codes.
RECURSIVE Plain(_)
Plain(q) ==
    IF q = <<>> THEN <<>>
    ELSE (IF q[1] \in Bytes THEN <<q[1]>> ELSE <<>>) \o Plain(Tail(q))

RECURSIVE TotalTaken(_)
\* The number of bytes the writers accepted over the first k Write calls.
TotalTaken(k) == IF k = 0 THEN 0 ELSE writeLog[k].n + TotalTaken(k - 1)

ReplayDone == rpPc = "returned" /\ rpRet = "nil"

\* C21: when Replay at multiplier 0 has returned nil, each writer has taken
\* exactly the payloads of the entries routed to it, joined in log order and
\* not modified: everything on the one writer when one was given (or the
\* same writer twice), each stream's payloads on its own writer otherwise.
C21_ReplayRoundTrip ==
    (ReplayDone /\ rpSm = "0")
        => \A w \in Writers : sink[w] = Routed(w, Len(entries))

\* C23: a call of Replay with a non-nil writer and a negative, infinite or
\* NaN multiplier returns ErrInvalidMultiplier in that step, having written
\* nothing and slept for nothing, with the log as it was; and nothing is
\* written or slept afterwards.
C23_InvalidMultiplierRejected ==
    /\ [](rpRet = "ErrInvalidMultiplier"
            => /\ rpPc = "returned"
               /\ writeLog = <<>> /\ delays = <<>>
               /\ \A w \in Writers : sink[w] = <<>>)
    /\ [][(rpPc = "idle" /\ rpPc' \notin {"idle", "panicked"}
            /\ rpSm' \in {"-1", "+Inf", "NaN"})
           => /\ rpPc' = "returned" /\ rpRet' = "ErrInvalidMultiplier"
              /\ now' = now
              /\ entries' = entries /\ buf' = buf]_vars

\* Replay was refused for its multiplier although it had events to write.
C23_Witness ==
    /\ rpRet = "ErrInvalidMultiplier"
    /\ rpSm = "NaN"
    /\ Len(entries) = MaxEntries
    /\ rpOut # rpErr

\* C24: a Write call of Replay that returned an error is the last one it
\* made: Replay has returned that error, and the writers have taken the
\* bytes accepted up to and in that call and no byte more, so nothing of a
\* later event and nothing of the rest of the failing event.
C24_FirstWriteErrorStops ==
    \A k \in 1..Len(writeLog) :
        writeLog[k].err # "nil"
            => /\ k = Len(writeLog)
               /\ rpPc = "returned"
               /\ rpRet = writeLog[k].err
               /\ Len(Plain(sink["w1"])) + Len(Plain(sink["w2"])) = TotalTaken(k)

\* The first event's second Write call failed after taking nothing, with
\* one byte of that event already out and a later event never written.
C24_Witness ==
    /\ Len(writeLog) = 2
    /\ writeLog[2].err = "EIO" /\ writeLog[2].entry = 1 /\ writeLog[2].from = 1
    /\ writeLog[2].n = 0
    /\ Len(entries) = 2
    /\ rpRet = "EIO"

\* C22: at a multiplier m > 0 no event is written before replayStart +
\* offset/m, and the delay taken before an event is what is left of
\* offset/m after the time gone by since replayStart when the delay is
\* computed, or nothing if that is not positive; at multiplier 0 no delay is
\* taken.
C22_ReplayTiming ==
    /\ \A k \in 1..Len(writeLog) :
          rpSm # "0" => writeLog[k].at >= replayStart
                              + Scaled(entries[writeLog[k].entry].timeOffset, rpSm)
    /\ \A k \in 1..Len(delays) :
          LET left == delays[k].due - (delays[k].at - replayStart)
          IN delays[k].slept = IF rpSm = "0" \/ left < 0 THEN 0 ELSE left

\* No event is written before its time, and multiplier 0 takes no delay.
NotEarly ==
    /\ \A k \in 1..Len(writeLog) :
          rpSm # "0" => writeLog[k].at >= replayStart
                              + Scaled(entries[writeLog[k].entry].timeOffset, rpSm)
    /\ \A k \in 1..Len(delays) : rpSm = "0" => delays[k].slept = 0

\* The payloads handed to the passthrough writer of stream st, in order.
PassedOf(st) == SelectSeq(passed, LAMBDA c : c[1] = st)

\* The Write calls of stream st that have returned.
Returned(st) == IF wPc[st] \in {"lock", "pass"} THEN Len(issued[st]) - 1 ELSE Len(issued[st])

\* C25: a Write appends its one event before it hands the payload to the
\* passthrough writer, hands it over once per Write and only when a
\* passthrough is set, and returns a non-nil error when that writer failed
\* or took too little; the event of such a Write is in the log, once, with
\* the payload.
C25_PassthroughAfterAppend ==
    \A st \in Streams :
        /\ Len(PassedOf(st)) = IF passthrough = "none" THEN 0 ELSE Returned(st)
        /\ \A i \in 1..Len(PassedOf(st)) : PassedOf(st)[i][2] = issued[st][i]
        /\ Len(PassedOf(st)) <= Len(StreamEntries(st))
        /\ wPc[st] = "returned"
              => /\ (passthrough = "failing" \/ (passthrough = "short" /\ wP[st] # <<>>))
                      <=> wRet[st].err # "nil"
                 /\ Len(StreamEntries(st)) = Len(issued[st])
                 /\ Data(StreamEntries(st)[Len(issued[st])]) = wP[st]

\* A short passthrough writer: the first stdout Write returned the error,
\* its event is in the log, and a later stderr Write has made its append
\* and not yet reached the passthrough writer.
C25_Witness ==
    /\ passthrough = "short"
    /\ wPc["stdout"] = "returned" /\ wRet["stdout"].err = "short"
    /\ wPc["stderr"] = "pass"
    /\ passed = << <<"stdout", <<"b", "a">> >> >>
    /\ Len(entries) = 2 /\ Data(entries[1]) = <<"b", "a">>

\* C26: the baseline is set by the first call of startTiming, to the clock
\* at that call, and by nothing else; once set it keeps its value through
\* every later step: further startTiming calls, Writes, special events and
\* Replay.
C26_BaselineSetOnce ==
    /\ [](lastStart # <<>> => recordingStart # <<>>)
    /\ [][recordingStart # <<>> => recordingStart' = recordingStart]_vars
    /\ [][(recordingStart = <<>> /\ recordingStart' # <<>>)
           => (recordingStart' = <<now>> /\ lastStart' = <<now>>)]_vars

\* startTiming was called first at clock 1 and again at clock 2, output was
\* recorded and replayed and a special event added.
C26_Witness ==
    /\ recordingStart = <<1>>
    /\ lastStart = <<2>>
    /\ entries # <<>>
    /\ events # <<>>
    /\ rpPc = "returned" /\ writeLog # <<>>

\* C27: whatever the interleaving with recording and Replay, a step that
\* changes the special events appends one event stamped with the clock and
\* leaves the events before it, the output log and Replay's output as they
\* were; a step that changes the output log or belongs to Replay leaves the
\* special events as they were; and the timestamps never decrease along
\* the list GetSpecialEvents returns.
C27_SpecialEventsIndependent ==
    /\ [](\A i \in 1..Len(GetSpecialEvents) - 1 :
            GetSpecialEvents[i].Timestamp <= GetSpecialEvents[i + 1].Timestamp)
    /\ [][events' # events
           => /\ Len(events') = Len(events) + 1
              /\ SubSeq(events', 1, Len(events)) = events
              /\ events'[Len(events')].Timestamp = now
              /\ entries' = entries /\ buf' = buf /\ sink' = sink]_vars
    /\ [][(entries' # entries \/ buf' # buf \/ rpPc' # rpPc \/ sink' # sink)
           => events' = events]_vars

\* Two special events of different types, the second added while Replay was
\* between its first write and its second.
C27_Witness ==
    /\ Len(events) = 2
    /\ events[1].EventType = "resize" /\ events[2].EventType = "escape"
    /\ rpPc = "write" /\ Len(writeLog) = 1
    /\ events[1].Timestamp < writeLog[1].at
    /\ events[2].Timestamp > writeLog[1].at

RECURSIVE Joined(_)
\* The payloads of a sequence of <<stream, payload>> pairs, joined.
Joined(q) == IF q = <<>> THEN <<>> ELSE q[1][2] \o Joined(Tail(q))

\* The log as the sequence of its events' streams and payloads.
LogOrder == [i \in 1..Len(entries) |-> <<entries[i].source, Data(entries[i])>>]

\* C40: with one passthrough writer shared by both streams, once the Writes
\* made have returned, the bytes the passthrough writer has received are the
\* payloads of the log joined in log order, which is what Replay(w, w, 0)
\* writes.
C40_PassthroughInLogOrder ==
    (passthrough = "good" /\ \A st \in Streams : wPc[st] \in {"idle", "returned"})
        => Joined(passed) = Joined(LogOrder)

\* C38: when NewSSH has returned a client with a nil error, its goroutine
\* has not closed the network connection, and whenever NewSSH has returned
\* past the dial its goroutine has ended.
C38_ClientConnectionOpen ==
    /\ (nsPc = "returned" /\ nsRet = "client") => ~connClosed
    /\ (nsPc = "returned" /\ nsRet # "dial error") => watcherPc = "done"

\* Whenever NewSSH has returned past the dial its goroutine has ended.
WatcherEnded == (nsPc = "returned" /\ nsRet # "dial error") => watcherPc = "done"

\* The reference rule for one sequence s with progress q on byte b.
RefProgress(s, q, b) ==
    IF s[q + 1] = b
    THEN IF q + 1 < Len(s) THEN q + 1 ELSE 0
    ELSE IF s[1] = b THEN 1 ELSE 0

\* C33: an InsertByte(b) takes the counter of every registered sequence to
\* what the reference rule gives for that sequence, its counter and b
\* alone, whatever else is registered; and between calls every counter q
\* of a sequence s has 0 <= q < len(s).
C33_ReferenceRule ==
    /\ [](\A s \in DOMAIN escapes : 0 <= escapes[s] /\ escapes[s] < Len(s))
    /\ [][stream' # stream
           => \A s \in DOMAIN escapes :
                 /\ s # <<>>
                 /\ escapes'[s] = RefProgress(s, escapes[s], stream'[Len(stream')])]_vars

\* C39: while an escape callback runs, the InsertByte that called it does
\* not hold the Processor's mutex, and a callback that has called
\* AddSequencePairs on the same Processor can go on.
C39_CallbackOutsideMutex ==
    /\ cbPc # "idle" => epMu # "InsertByte"
    /\ cbPc = "locking" => ENABLED (\E s \in Seqs : AddLocked("callback", s))

\* The callback waits for the mutex its caller holds until the callback
\* returns.
CallbackDeadlocked == cbPc = "locking" /\ epMu = "InsertByte" /\ ibPc = "callback"

\* C34: when ReadFrom has returned, the log of its stream holds every byte
\* the reader returned, in order, and the count returned is the number of
\* bytes recorded.
C34_ReadFromCapturesAll ==
    rfPc = "returned"
        => /\ Joined([i \in 1..Len(StreamEntries("stdout")) |->
                        <<"stdout", Data(StreamEntries("stdout")[i])>>]) = rfSrc
           /\ rfRet = Len(buf["stdout"])

\* C35: ReadFrom has returned once a Read call of its reader has returned
\* io.EOF or any other error.
C35_ReadFromReturnsOnError ==
    (rfPc # "idle" /\ rfLastErr # "nil") => rfPc = "returned"

\* C36: while the command runs, a value sent on WinCh finds the goroutine
\* still serving the channel, so that it is received and leads to a
\* window-change request, the second value as the first; every value
\* received has led to one request once the goroutine is done; and once
\* RunCommand has returned the goroutine is done or can end at once.
C36_EveryDimsValueServed ==
    /\ (rcPc = "run" /\ winCh # <<>>) => winPc \in {"select", "changing"}
    /\ winPc = "done" => Len(winReqs) + Len(winCh) = winSent
    /\ (rcPc = "returned" /\ winPc = "select") => ENABLED WinDone

\* C37: when RunCommand has returned after its setup, it has returned nil
\* exactly if sess.Run or sess.Shell returned nil, and otherwise the error
\* of that call.
C37_ResultFromRunOnly ==
    (rcPc = "returned" /\ rcRunErr # "none") => rcRet = rcRunErr


\* C31: every panic of a user's handler, for an OS signal and for a signal
\* sent with SendSignal alike, has been recovered and logged; while signal
\* handling is set up the dispatch loop is alive whatever has panicked; and
\* the loop back in its select takes whichever signal is waiting, and the
\* handler's end brings it back to the select.
C31_PanicRecoveredLoopRuns ==
    /\ loggedPanics = handlerPanics
    /\ handlersSet => loopPc \in {"select", "handling"}
    /\ (loopPc = "select" /\ osSigC # <<>>) => ENABLED TakeOsSignal
    /\ (loopPc = "select" /\ sigC # <<>>) => ENABLED TakeSentSignal
    /\ loopPc = "handling" => ENABLED HandlerEnds(FALSE)

\* A handler has panicked for an OS signal, one has panicked for a sent
\* signal, and the loop is calling the handler of a later signal.
C31_Witness ==
    /\ handlerPanics["os"] > 0
    /\ handlerPanics["sent"] > 0
    /\ afterPanic
    /\ handlersSet
    /\ loopPc = "handling"
    /\ sigCur = "sent"

\* C32: a SendSignal made while signal handling is not set up returns (it
\* is never left blocked), and no handler is ever called with a signal that
\* was sent while signal handling was not set up.
C32_SendWithoutHandlingIsNoOp ==
    /\ (~handlersSet /\ sigSent < MaxSends) => ENABLED SendSignal
    /\ ~staleHandled

====
